---- MODULE Spec2Model ----
(***************************************************************************)
(* Session lifecycle of agentops, as implemented by                       *)
(*   agentops/session/session.py   (Session, signal driven) together with *)
(*   agentops/instrumentation.py   (the signal handlers it imports), and  *)
(*   agentops/session/manager.py   (SessionManager, lock driven).         *)
(* The two implementations coexist in the repository; impl selects which  *)
(* one a behaviour runs.  Threads call the public operations; every       *)
(* action is one step between two points where another thread can run.    *)
(***************************************************************************)
EXTENDS Naturals, Integers, Sequences, FiniteSets, TLC

\* ------------------------------------------------------------------ bounds
\* Total number of API calls the threads make in one behaviour.
MaxCalls == 3

Threads == {"t1", "t2"}

None == "None"

\* ------------------------------------------------------- program constants
\* EndState enum values (session.py 60-62).
EndStateValues == {"Success", "Fail", "Indeterminate"}

\* end_state arguments the callers pass: two valid ones and an unrecognized one.
\* together with the end_state_reason given.
EndInputs == { <<"Success", "why">>, <<"Indeterminate", None>>, <<"bogus", None>> }

\* keys of Session.event_counts (session.py 79-81)
Categories == {"llms", "tools", "actions", "errors", "apis"}

\* EventType enum values (event.py 47-52)
EventTypeValues == {"llms", "actions", "apis", "tools", "errors"}

\* token_cost the server answers in an update_session response
ServerCost == 5

\* ------------------------------------------------------------------ events
\* Default event_type string of each event class (event.py 115, 141, 161, 183).
DefaultEventType(cls) ==
    CASE cls = "LLMEvent"    -> "llms"
      [] cls = "ToolEvent"   -> "tools"
      [] cls = "ActionEvent" -> "actions"
      [] cls = "ErrorEvent"  -> "errors"

\* The category a caller means by recording an event of a class
\* (tests/test_session.py 226-245: ActionEvent("test-action") is an action).
ClassCategory(cls) == DefaultEventType(cls)

\* Event.__post_init__ (event.py 88-95): a string that names an EventType is
\* replaced by the enum member, any other string is kept.  ErrorEvent defines
\* its own __post_init__ (event.py 193-202) and does not call the parent's, so
\* its event_type stays the string.
Event_post_init(cls, et) ==
    IF cls # "ErrorEvent" /\ et \in EventTypeValues
    THEN [tag |-> "enum", v |-> et]
    ELSE [tag |-> "str", v |-> et]

\* Constructing an event of class cls with first positional argument arg
\* ("default": no argument).  ErrorEvent.__post_init__ sets end_timestamp
\* (event.py 200-202); ts is the time of construction.
NewEvent(cls, arg, ts) ==
    [cls |-> cls,
     event_type |-> Event_post_init(cls, IF arg = "default" THEN DefaultEventType(cls) ELSE arg),
     end_timestamp |-> IF cls = "ErrorEvent" THEN ts ELSE 0]

\* record() arguments: event class, first positional argument, flush_now
EventInputs ==
    { <<"LLMEvent", "default", FALSE>>, <<"LLMEvent", "default", TRUE>>,
      <<"ActionEvent", "test-action", FALSE>>, <<"ErrorEvent", "default", FALSE>> }

\* instrumentation.py 266: event.event_type.value if it is an EventType, else str()
EventTypeName(ev) == ev.event_type.v

\* manager.py 100: `event.event_type in event_counts` is a dict lookup with the
\* value itself; an EventType member is a plain Enum and equals no string key.
InCountsByValue(ev) == ev.event_type.tag = "str" /\ ev.event_type.v \in Categories

\* instrumentation.py 280: `event_type in sender.event_counts` with the string name.
InCountsByName(ev) == EventTypeName(ev) \in Categories

\* ------------------------------------------------------------------ tags
\* add_tags/set_tags calls: the operation and its argument, a list of strings
\* or one bare string.
TagInputs == { <<"add_tags", [isstr |-> FALSE, l |-> <<"a">>, s |-> None]>>,
               <<"add_tags", [isstr |-> FALSE, l |-> <<"b", "a", "b">>, s |-> None]>>,
               <<"add_tags", [isstr |-> TRUE,  l |-> <<>>, s |-> "b"]>>,
               <<"set_tags", [isstr |-> FALSE, l |-> <<"a">>, s |-> None]>> }

\* no tags argument
NoTags == [isstr |-> FALSE, l |-> <<>>, s |-> None]

\* The log entry of a tags call of thread t: the argument as given, the tags
\* before and after, and the update requests made for it with their payload.
TagEntry(t, op, raw, before, after, posts, payload) ==
    [t |-> t, op |-> op, raw |-> raw, before |-> before, after |-> after,
     posts |-> posts, payload |-> payload]

\* session.py 183-185 / 204-206: a bare string becomes a one-element list.
NormalizeTags(arg) == IF arg.isstr THEN << arg.s >> ELSE arg.l

Contains(s, x) == \E i \in 1..Len(s) : s[i] = x

\* an append that does not look for the tag in the list
AppendAll(cur, new) == cur \o new

RECURSIVE AppendNew(_, _)
\* session.py 192-194: append, in order, each tag not yet present.
AppendNew(cur, new) ==
    IF new = <<>> THEN cur
    ELSE AppendNew(IF Contains(cur, Head(new)) THEN cur ELSE Append(cur, Head(new)), Tail(new))

\* manager.py 76-80: a string is appended if absent; a list is extended by the
\* generator `t for t in tags if t not in self._state.tags`, which is consumed
\* while the list grows, so each element is tested against the grown list.
Manager_extend(cur, arg) ==
    IF arg.isstr
    THEN (IF Contains(cur, arg.s) THEN cur ELSE Append(cur, arg.s))
    ELSE AppendNew(cur, arg.l)

\* manager.py 88-91: a string becomes a one-element list, a list is copied.
Manager_replace(arg) == IF arg.isstr THEN << arg.s >> ELSE arg.l

\* Outcomes of an HTTP request: a response, an ApiServerException, or any
\* other exception (a connection error).
PostOutcomes == {"ok", "api_error", "error"}

Bump(f, k) == [f EXCEPT ![k] = @ + 1]

\* ------------------------------------------------------------------ state
VARIABLES
    impl,               \* "session" (session.py) or "manager" (manager.py)
    is_running,         \* Session.is_running
    end_timestamp,      \* Session.end_timestamp, 0 is None
    end_state,          \* Session.end_state
    end_state_reason,   \* Session.end_state_reason
    tags,               \* Session.tags
    event_counts,       \* Session.event_counts
    token_cost,         \* Session.token_cost
    tracer,             \* Session._tracer: None, "active", "shutdown"
    registered,         \* the session is in the registry (add_session/remove_session)
    lock,               \* holder of _lock, or None
    end_session_lock,   \* holder of _end_session_lock, or None
    pc,                 \* per thread: the statement it is at
    fr,                 \* per thread: arguments and locals of the call in progress
    calls,              \* number of calls made so far
    sent,               \* per signal: number of times it was sent
    net,                \* per request kind: number of HTTP requests made
    flushes,            \* number of flushes of the span pipeline
    starts,             \* number of times the session was made running by a start
    recorded,           \* per category: record() calls made on a started, running session
    incs,               \* per category: `event_counts[c] += 1` statements completed
    rec_overlap,        \* two record() calls were in progress at the same time
    ends,               \* log of the end() calls that returned, in order
    start_log,          \* the (state before, result) pairs of the starts that returned
    init_outcome,       \* how Session._initialize() went in __post_init__
    tx_raised,          \* the producer calls that a transport failure made raise
    tag_log,            \* log of the add_tags/set_tags calls that changed the tags
    event,              \* the event whose end_timestamp the handlers maintain
    ev_pending,         \* _on_session_event_recorded in progress: spans left, state before
    ev_log,             \* log of the handler invocations that finished
    x_kind,             \* the exporter class under consideration
    x_testing,          \* config.TESTING
    x_shutdown,         \* the exporter's _shutdown / _is_shutdown flag
    x_down,             \* number of shutdown() calls that have returned
    x_pc,               \* per thread: "idle", or "export" past the shutdown check
    x_arg,              \* per thread: the batch being exported and the endpoint's answer
    x_net,              \* number of HTTP requests the exporter has begun
    x_log,              \* log of the export() calls that finished
    p_kind,             \* the teardown routine under consideration
    p_done,             \* its one-shot state: _is_shutdown set / components popped
    p_calls,            \* log of its calls: what each did to the stages, in order
    m_wiring,           \* which module builds the sessions' tracing pipelines
    m_global,           \* the global tracer provider: None, or the session that made it
    m_provider,         \* per session: the provider its tracer belongs to, or None
    m_attached,         \* per provider: the sessions whose processors it feeds
    m_delivered,        \* per session: whose events its exporter was handed
    m_running,          \* per session: is_running
    m_counts,           \* per session: number of events counted in event_counts
    m_down,             \* the sessions whose processors and exporters are shut down
    m_last,             \* the session the latest operation was called on
    t_wiring,           \* which handler creates the spans of recorded events
    t_root,             \* the session's root span: its trace id and span id
    t_current,          \* per thread: trace id of the span current on it, 0 if none
    t_next,             \* next fresh trace/span id of the id generator
    t_spans,            \* the spans created for recorded events
    b_site,             \* which constructor builds the batching stage
    b_queue,            \* config.max_queue_size
    b_built,            \* whether the stage has been constructed
    b_batch,            \* the stage's max_export_batch_size, 0 before it is built
    b_pending,          \* spans handed to the stage and not yet exported
    b_exports,          \* export calls made on the stage's export thread
    b_log,              \* log of the record() calls: what the calling thread did
    f_kind,             \* per span: is_recording() and trace_flags.sampled
    f_started,          \* the spans on_start was called with
    f_ended,            \* the spans on_end was called with
    f_in_flight,        \* SessionSpanProcessor._in_flight (its span ids)
    f_fwd,              \* per span: times a tick forwarded it to the wrapped on_end
    f_since,            \* per span: number of ticks made when it started
    f_ticks,            \* number of ticks of the export thread
    f_stop,             \* _stop_event is set
    f_timer,            \* the export thread: "check", "sleep" or "exited"
    f_sd,               \* shutdown(): 0 not called, else the step it is at
    f_wrapped_down,     \* the wrapped processor's shutdown has begun
    f_late,             \* a tick called the wrapped on_end after that
    f_real,             \* per span, the tick count when its real on_end was forwarded, -1 before
    f_popped,           \* spans popped by on_end whose forward is still to come
    f_after,            \* spans a tick forwarded after their real on_end was forwarded
    f_after_stop,       \* ticks since the stop event was set
    cv_event,           \* the event handed to the converter
    cv_spans,           \* the span definitions convert_event returned
    i_phase,            \* the traced session: "new", "started" or "ended"
    i_stages,           \* the processor stages added to the provider for it
    i_roots,            \* per root span opened for it, the number of end() calls
    i_tracer,           \* the root span of instrumentor.session_tracer, 0 is None
    i_is_shutdown,      \* SessionInstrumentor._is_shutdown
    r_state,            \* per session: "none", "failed", "running" or "ended"
    r_tracer,           \* per session: its _tracer is set
    r_handlers,         \* the keys of _session_handlers
    r_tracers,          \* the keys of _session_tracers
    r_log_down,         \* the sessions whose log processor was flushed and shut down
    h_stack,            \* per thread, the frames of its nested calls into the session
    h_locks,            \* the holder of _lock and of _end_session_lock
    h_running,          \* Session.is_running
    h_calls             \* calls made from outside so far

\* the session record (the dataclass fields a caller can observe)
session_vars == << is_running, end_timestamp, end_state, end_state_reason, tags,
                   event_counts, token_cost >>

\* everything an operation can do to the world besides the session record
effect_vars == << tracer, registered, sent, net, flushes, starts >>

lock_vars == << lock, end_session_lock >>

history_vars == << recorded, incs, rec_overlap, ends, start_log >>

\* what construction left behind; no operation changes it
init_vars == << init_outcome >>

\* the state of the session component (session.py / manager.py)
lifecycle_vars == << session_vars, effect_vars, lock_vars, pc, fr, history_vars >>

\* the state of the other components
\* an event and the handlers of its signals (event.py, instrumentation.py,
\* telemetry/instrumentation.py)
event_vars == << event, ev_pending, ev_log >>

\* an exporter (session/exporters.py, instrumentation/session/exporters.py)
exporter_vars == << x_kind, x_testing, x_shutdown, x_down, x_pc, x_arg, x_net, x_log >>

\* the state outside the session component
\* the teardown of a session's pipeline (instrumentation.py,
\* instrumentation/session/tracer.py, telemetry/instrumentation.py,
\* telemetry/processors.py)
pipeline_vars == << p_kind, p_done, p_calls >>

\* two sessions and their tracing pipelines
multi_vars == << m_wiring, m_global, m_provider, m_attached, m_delivered, m_running,
                m_counts, m_down, m_last >>

\* trace identity of event spans
trace_vars == << t_wiring, t_root, t_current, t_next, t_spans >>

\* the span pipeline components
\* configuration of the batching stage
batch_vars == << b_site, b_queue, b_built, b_batch, b_pending, b_exports, b_log >>

\* the in-flight span tracker (telemetry/processors.py)
inflight_vars == << f_kind, f_started, f_ended, f_in_flight, f_fwd, f_since, f_ticks, f_stop,
                   f_timer, f_sd, f_wrapped_down, f_late, f_real, f_popped, f_after,
                   f_after_stop >>

\* the event to span converter (telemetry/converter.py)
convert_vars == << cv_event, cv_spans >>

\* the instrumentor of one session (instrumentation/session/tracer.py)
instr_vars == << i_phase, i_stages, i_roots, i_tracer, i_is_shutdown >>

\* the components that follow the span pipeline components
\* the per-session registries (instrumentation.py, telemetry/instrumentation.py)
registry_vars == << r_state, r_tracer, r_handlers, r_tracers, r_log_down >>

\* a session whose signal receivers call back into it (session.py)
handler_vars == << h_stack, h_locks, h_running, h_calls >>

late_vars == << convert_vars, instr_vars, registry_vars, handler_vars >>

span_vars == << trace_vars, batch_vars, inflight_vars, late_vars >>

\* the components above, as seen from the span pipeline components
settled_vars == << init_vars, tx_raised, tag_log, lifecycle_vars, event_vars, exporter_vars,
                   pipeline_vars, multi_vars, late_vars >>

\* everything but the components that follow the span pipeline components
early_vars == << init_vars, tx_raised, tag_log, lifecycle_vars, event_vars, exporter_vars,
                 pipeline_vars, multi_vars, trace_vars, batch_vars, inflight_vars, calls >>

outside_vars == << init_vars, event_vars, exporter_vars, pipeline_vars, multi_vars, span_vars >>

component_vars == << outside_vars, tx_raised, tag_log >>

vars == << impl, lifecycle_vars, calls, component_vars >>

Signals == {"session_starting", "session_started", "session_ending",
            "session_ended", "event_recorded", "session_updated"}

Requests == {"update_session", "update_tags", "create_session"}

NoEvent == [cls |-> None, event_type |-> [tag |-> "str", v |-> None], end_timestamp |-> 0]

IdleFrame ==
    [op |-> None, es |-> None, rsn |-> None, ev |-> NoEvent, tg |-> <<>>, raw |-> NoTags,
     flush_now |-> FALSE, rd |-> 0, ret |-> None,
     upd |-> 0, fls |-> 0, ending |-> 0, ended |-> 0, cln |-> 0,
     pre |-> None, pre_started |-> FALSE, epoch |-> 0]

\* The lifecycle state of the design (INITIALIZING, RUNNING, terminal) that a
\* session record stands for.
SessionState ==
    IF ~is_running THEN "TERMINAL"
    ELSE IF starts = 0 THEN "INITIALIZING" ELSE "RUNNING"

InRecord(p) == p \in {"rec_send", "rec_write"}

InEnd(p) == p \in {"end_lock", "end_update", "end_finally", "end_ended",
                   "m_end_lock", "m_end_fields", "m_end_finish"}

\* get_ISO_time(): time is measured by the calls made so far; a timestamp read
\* inside a call is later than the construction of the call's arguments.
Now == 2 * calls + 1

ConstructTime == 2 * (calls + 1)

\* ------------------------------------------------------------------ init
\* Outcomes of Session._initialize() (session.py 106-130): it returns True, or
\* _get_jwt() (132-155) obtains no JWT, or _setup_logging() (157-166) cannot
\* build the log pipeline; an exception out of it counts as a failure (95-98).
InitOutcomes == {"ok", "no_jwt", "no_logging"}

\* session.py 83, 95-101: is_running defaults to True and is set False when
\* initialization did not succeed; no other field is touched.
Session_post_init(outcome) == outcome = "ok"

\* Session.__post_init__ (session.py 85-101): is_running defaults to True
\* (session.py 83) and is set False when _initialize() fails.  The manager
\* works on an already constructed Session record.
SessionInit ==
    /\ init_outcome \in (IF impl = "session" THEN InitOutcomes ELSE {"ok"})
    /\ is_running = Session_post_init(init_outcome)
    /\ end_timestamp = 0
    /\ end_state = "Indeterminate"
    /\ end_state_reason = None
    /\ tags = <<>>
    /\ event_counts = [c \in Categories |-> 0]
    /\ token_cost = 0
    /\ tracer = None
    /\ registered = FALSE
    /\ lock = None
    /\ end_session_lock = None
    /\ pc = [t \in Threads |-> "idle"]
    /\ fr = [t \in Threads |-> IdleFrame]
    /\ calls = 0
    /\ sent = [s \in Signals |-> 0]
    /\ net = [r \in Requests |-> 0]
    /\ flushes = 0
    /\ starts = 0
    /\ recorded = [c \in Categories |-> 0]
    /\ incs = [c \in Categories |-> 0]
    /\ rec_overlap = FALSE
    /\ ends = <<>>
    /\ start_log = {}
    /\ tx_raised = {}
    /\ tag_log = <<>>

\* ----------------------------------------------------------- event handlers
EventClasses == {"LLMEvent", "ActionEvent", "ToolEvent", "ErrorEvent"}

\* EventToSpanConverter.convert_event (telemetry/converter.py 138-151): the main
\* span, and a child span for action, tool and LLM events (271-348).
SpanCount(cls) == IF cls \in {"ActionEvent", "ToolEvent", "LLMEvent"} THEN 2 ELSE 1

NoPending == [left |-> 0, pre |-> 0]

\* get_ISO_time() at the k-th timestamp read of the current handler invocation
EventTime(k) == 2 * calls + 1 + k

EventInit ==
    /\ event \in (IF impl = "event"
                  THEN { NewEvent(cls, "default", 1) : cls \in EventClasses }
                  ELSE { NoEvent })
    /\ ev_pending = NoPending
    /\ ev_log = <<>>

\* ---------------------------------------------------------------- exporters
ExporterKinds == {"SessionExporter", "SessionLogExporter",
                  "SessionLifecycleExporter", "RegularEventExporter"}

LifecycleSpanNames == {"session.start", "session.end"}

\* batches handed to export(): sequences of span (or log record) names
Batches == { <<>>, <<"event">>, <<"session.start">>, <<"event", "session.end">> }

\* what the endpoint does with a request: a status code, or the HTTP client
\* raises
Responses == {"200", "500", "exception"}

NoArg == [batch |-> <<>>, resp |-> None]

ExporterInit ==
    /\ x_kind \in (IF impl = "exporter" THEN ExporterKinds ELSE {None})
    /\ x_testing \in (IF impl = "exporter" THEN BOOLEAN ELSE {FALSE})
    /\ x_shutdown = FALSE
    /\ x_down = 0
    /\ x_pc = [t \in Threads |-> "idle"]
    /\ x_arg = [t \in Threads |-> NoArg]
    /\ x_net = 0
    /\ x_log = <<>>

\* ----------------------------------------------------------------- teardown
TeardownKinds == {"SessionTracer", "SessionInstrumentor", "cleanup_session_tracer",
                  "SessionSpanProcessor"}

PipelineInit ==
    /\ p_kind \in (IF impl = "pipeline" THEN TeardownKinds ELSE {None})
    /\ p_done = FALSE
    /\ p_calls = <<>>

\* ------------------------------------------------------------- two sessions
Sessions == {"A", "B"}

\* the modules that build a session's pipeline on session_started
Wirings == {"SessionTracer", "setup_session_tracer", "SessionInstrumentor"}

MultiInit ==
    /\ m_wiring \in (IF impl = "sessions" THEN Wirings ELSE {None})
    /\ m_global = None
    /\ m_provider = [s \in Sessions |-> None]
    /\ m_attached = [s \in Sessions |-> {}]
    /\ m_delivered = [s \in Sessions |-> {}]
    /\ m_running = [s \in Sessions |-> FALSE]
    /\ m_counts = [s \in Sessions |-> 0]
    /\ m_down = {}
    /\ m_last = None

\* ------------------------------------------------------------ trace identity
\* the handlers that create a span for a recorded event
SpanCreators == {"start_operation", "on_event_record", "_on_session_event_recorded"}

\* the root span is the first span of the session's tracer: trace id 1, span id 1
TraceInit ==
    /\ t_wiring \in (IF impl = "trace" THEN SpanCreators ELSE {None})
    /\ t_root = [trace |-> 1, id |-> 1]
    /\ t_current = [t \in Threads |-> 0]
    /\ t_next = 2
    /\ t_spans = {}

\* ------------------------------------------------------------ batching stage
\* the constructors of a BatchSpanProcessor
BatchSites == {"SessionTracer", "_setup_span_processor"}

\* configured values of max_queue_size (default 512, config.py 46-48)
QueueSizes == {1, 2, 19, 20, 21, 31, 32, 33, 39, 40, 41, 512, 639, 640, 641, 1000}

BatchInit ==
    /\ b_site \in (IF impl = "batch" THEN BatchSites ELSE {None})
    /\ b_queue \in (IF impl = "batch" THEN QueueSizes ELSE {512})
    /\ b_built = FALSE
    /\ b_batch = 0
    /\ b_pending = 0
    /\ b_exports = 0
    /\ b_log = <<>>

\* --------------------------------------------------------- in-flight tracker
SpanIds == {1, 2}

\* A span is recorded and sampled, recorded only, or neither.
SpanKinds == {[recording |-> TRUE, sampled |-> TRUE],
              [recording |-> TRUE, sampled |-> FALSE],
              [recording |-> FALSE, sampled |-> FALSE]}

\* processors.py 40-50: an empty map, the stop event clear, the export thread
\* started
InflightInit ==
    /\ f_kind \in (IF impl = "inflight" THEN [SpanIds -> SpanKinds]
                   ELSE {[i \in SpanIds |-> [recording |-> TRUE, sampled |-> TRUE]]})
    /\ f_started = {}
    /\ f_ended = {}
    /\ f_in_flight = {}
    /\ f_fwd = [i \in SpanIds |-> 0]
    /\ f_since = [i \in SpanIds |-> 0]
    /\ f_ticks = 0
    /\ f_stop = FALSE
    /\ f_timer = "check"
    /\ f_sd = 0
    /\ f_wrapped_down = FALSE
    /\ f_late = FALSE
    /\ f_real = [i \in SpanIds |-> -1]
    /\ f_popped = {}
    /\ f_after = {}
    /\ f_after_stop = 0

\* event.py 79-86, 116-117, 147, 163, 186: the optional fields of an event;
\* each is None or holds a value of its declared type.  The fields the
\* converter reads that are not listed here are given.
EventKinds == {"llm", "action", "tool", "error"}

ConverterEvents ==
    [kind : EventKinds, session_id : {"None", "uuid"}, agent_id : {"None", "uuid"},
     end_timestamp : {"None", "str"}, cost : {"None", "float"}, params : {"None", "dict"},
     returns : {"None", "str"}, logs : {"None", "str"}, trigger_event : {"None", "event"}]

ConvertInit ==
    /\ cv_event \in (IF impl = "converter" THEN ConverterEvents
                     ELSE {[kind |-> "llm", session_id |-> "uuid", agent_id |-> "uuid",
                            end_timestamp |-> "str", cost |-> "float", params |-> "dict",
                            returns |-> "str", logs |-> "str", trigger_event |-> "None"]})
    /\ cv_spans = << >>

\* instrumentation.py 43, telemetry/instrumentation.py 65: both maps start empty
RegistryInit ==
    /\ r_state = [s \in Sessions |-> "none"]
    /\ r_tracer = [s \in Sessions |-> FALSE]
    /\ r_handlers = {}
    /\ r_tracers = {}
    /\ r_log_down = {}

\* session.py 83, 87-88: a constructed session is running and its two locks
\* are free
SessionLocks == {"_lock", "_end_session_lock"}

HandlerInit ==
    /\ h_stack = [t \in Threads |-> << >>]
    /\ h_locks = [l \in SessionLocks |-> None]
    /\ h_running = TRUE
    /\ h_calls = 0

\* no session has started: nothing is attached, no root span is open
InstrInit ==
    /\ i_phase = "new"
    /\ i_stages = << >>
    /\ i_roots = << >>
    /\ i_tracer = 0
    /\ i_is_shutdown = FALSE

Init ==
    /\ impl \in {"session", "manager", "event", "exporter", "pipeline", "sessions", "trace",
                 "batch", "inflight", "converter", "instrumentor", "registry",
                 "handlers"}
    /\ InstrInit
    /\ HandlerInit
    /\ RegistryInit
    /\ ConvertInit
    /\ InflightInit
    /\ BatchInit
    /\ TraceInit
    /\ SessionInit
    /\ EventInit
    /\ ExporterInit
    /\ PipelineInit
    /\ MultiInit

\* ------------------------------------------------------------ call frames
CanCall(t) == pc[t] = "idle" /\ calls < MaxCalls

\* thread t returns from its call
Return(t) ==
    /\ pc' = [pc EXCEPT ![t] = "idle"]
    /\ fr' = [fr EXCEPT ![t] = IdleFrame]

\* thread t moves on to statement p with frame f
Goto(t, p, f) ==
    /\ pc' = [pc EXCEPT ![t] = p]
    /\ fr' = [fr EXCEPT ![t] = f]

\* The log entry of an end() call of thread t that returns now with frame f:
\* what it was given, what it did, and the session as it leaves it.
EndEntry(t, f, passed, ret, raised, running_post, es_post, ts_post) ==
    [t |-> t, es |-> f.es, passed |-> passed, pre_started |-> f.pre_started,
     epoch |-> f.epoch, ret |-> ret, raised |-> raised,
     upd |-> f.upd, fls |-> f.fls, ending |-> f.ending, ended |-> f.ended, cln |-> f.cln,
     overlap |-> \E u \in Threads \ {t} : pc[u] \in {"end_lock", "m_end_lock"},
     running_post |-> running_post, end_state_post |-> es_post,
     end_timestamp_post |-> ts_post]

ReturnEnd(t, f, passed, ret, raised, running_post, es_post, ts_post) ==
    /\ Return(t)
    /\ ends' = Append(ends, EndEntry(t, f, passed, ret, raised, running_post,
                                     es_post, ts_post))

\* The session has been started and its telemetry pipeline is up.
PipelineUp == IF impl = "session" THEN tracer = "active" ELSE starts > 0

\* the frame of an end() call once it holds the end lock: what it found
Entered(f) == [f EXCEPT !.pre_started = PipelineUp, !.epoch = starts]

ReturnStart(t, pre, ret, raised) ==
    /\ Return(t)
    /\ start_log' = start_log \cup {[pre |-> pre, ret |-> ret, raised |-> raised]}

\* ================================================================ session.py
\* ---------------------------------------------------------------- Session.end
\* session.py 214-219: the call, with its arguments; it then waits for
\* _end_session_lock.
Session_end_call(t) ==
    /\ impl = "session"
    /\ CanCall(t)
    /\ \E a \in EndInputs :
          Goto(t, "end_lock", [IdleFrame EXCEPT !.op = "end", !.es = a[1], !.rsn = a[2]])
    /\ calls' = calls + 1
    /\ UNCHANGED << impl, component_vars, session_vars, effect_vars, lock_vars, history_vars >>

Session_end_never_ended == FALSE

\* session.py 221: `if not self.is_running`
Session_end_already_ended == ~is_running

\* session.py 224: `if not any(end_state == state.value for state in EndState)`
Session_end_invalid(es) == es \notin EndStateValues

\* session.py 220-230: the lock is taken; an ended session and an invalid
\* end_state both return None at once (the with block releases the lock);
\* otherwise session_ending is sent.  A subscriber may raise, which the
\* `except Exception` of 256 logs before the finally block runs.
Session_end_enter(t) ==
    /\ impl = "session"
    /\ pc[t] = "end_lock"
    /\ end_session_lock = None
    /\ IF Session_end_already_ended
       THEN /\ ReturnEnd(t, Entered(fr[t]), FALSE, None, FALSE, is_running, end_state,
                         end_timestamp)
            /\ UNCHANGED << end_session_lock, sent >>
       ELSE IF Session_end_invalid(fr[t].es)
       THEN /\ ReturnEnd(t, Entered(fr[t]), TRUE, None, FALSE, is_running, end_state,
                         end_timestamp)
            /\ UNCHANGED << end_session_lock, sent >>
       ELSE /\ end_session_lock' = t
            /\ sent' = Bump(sent, "session_ending")
            /\ \E raises \in BOOLEAN :
                  Goto(t, IF raises THEN "end_finally" ELSE "end_update",
                       [Entered(fr[t]) EXCEPT !.ending = @ + 1])
            /\ UNCHANGED ends
    /\ UNCHANGED << impl, component_vars, session_vars, tracer, registered, net, flushes, starts, lock,
                    calls, recorded, incs, rec_overlap, start_log >>

\* session.py 233-254 with get_analytics (418-436) and _get_response (373-386):
\* the end fields are written while is_running is still True; then one
\* update_session request is made.  A response sets token_cost, which end()
\* returns; an ApiServerException makes get_analytics return None; any other
\* exception reaches the `except Exception` of end().
Session_end_update(t) ==
    /\ impl = "session"
    /\ pc[t] = "end_update"
    /\ end_timestamp' = Now
    /\ end_state' = fr[t].es
    /\ end_state_reason' = fr[t].rsn
    /\ net' = Bump(net, "update_session")
    /\ \E out \in PostOutcomes :
          /\ token_cost' = IF out = "ok" THEN ServerCost ELSE token_cost
          /\ Goto(t, "end_finally",
                  [fr[t] EXCEPT !.upd = @ + 1,
                                !.ret = IF out = "ok" THEN "token_cost" ELSE None])
    /\ UNCHANGED << impl, component_vars, is_running, tags, event_counts, tracer, registered, sent,
                    flushes, starts, lock_vars, calls, history_vars >>

\* session.py 258-259: finally: self.is_running = False
Session_end_finally(t) ==
    /\ impl = "session"
    /\ pc[t] = "end_finally"
    /\ is_running' = FALSE
    /\ pc' = [pc EXCEPT ![t] = "end_ended"]
    /\ UNCHANGED << impl, component_vars, end_timestamp, end_state, end_state_reason, tags, event_counts,
                    token_cost, effect_vars, lock_vars, fr, calls, history_vars >>

\* instrumentation.py 163-176, SessionTracer.cleanup: force_flush and shutdown
\* of the span processor, then shutdown of the exporter; errors are logged.
SessionTracer_cleanup(tr) == "shutdown"

\* session.py 260 with on_session_end (instrumentation.py 221-237): the handler
\* asserts that the tracer exists (an AssertionError leaves end() through the
\* finally block), records the session.end span and cleans the tracer up.
Session_end_ended(t) ==
    /\ impl = "session"
    /\ pc[t] = "end_ended"
    /\ sent' = Bump(sent, "session_ended")
    /\ end_session_lock' = None
    /\ IF tracer = None
       THEN /\ ReturnEnd(t, [fr[t] EXCEPT !.ended = @ + 1], TRUE, None, TRUE,
                         is_running, end_state, end_timestamp)
            /\ UNCHANGED << tracer, flushes >>
       ELSE /\ tracer' = SessionTracer_cleanup(tracer)
            /\ flushes' = flushes + 1
            /\ ReturnEnd(t, [fr[t] EXCEPT !.ended = @ + 1, !.fls = @ + 1, !.cln = @ + 1],
                         TRUE, fr[t].ret, FALSE, is_running, end_state, end_timestamp)
    /\ UNCHANGED << impl, component_vars, session_vars, registered, net, starts, lock, calls,
                    recorded, incs, rec_overlap, start_log >>

\* ------------------------------------------------------- Session._start_session
\* session.py 306-313: under _lock, session_starting is sent and is_running is
\* set to True, whatever the state of the session was.
Session_start_enter(t) ==
    /\ impl = "session"
    /\ CanCall(t)
    /\ calls' = calls + 1
    /\ lock = None
    /\ lock' = t
    /\ sent' = Bump(sent, "session_starting")
    /\ is_running' = TRUE
    /\ starts' = starts + 1
    /\ Goto(t, "start_started", [IdleFrame EXCEPT !.op = "start", !.pre = SessionState])
    /\ UNCHANGED << impl, component_vars, end_timestamp, end_state, end_state_reason, tags, event_counts,
                    token_cost, tracer, registered, net, flushes, end_session_lock,
                    history_vars >>

\* session.py 316-318 with on_session_start (instrumentation.py 201-218): the
\* handler builds the session's SessionTracer, which may fail; the exception
\* then leaves _start_session (the lock is released by the with block).
Session_start_started(t) ==
    /\ impl = "session"
    /\ pc[t] = "start_started"
    /\ sent' = Bump(sent, "session_started")
    /\ lock' = None
    /\ \E ok \in BOOLEAN :
          /\ tracer' = IF ok THEN "active" ELSE tracer
          /\ ReturnStart(t, fr[t].pre, IF ok THEN "True" ELSE None, ~ok)
    /\ UNCHANGED << impl, component_vars, session_vars, registered, net, flushes, starts,
                    end_session_lock, calls, recorded, incs, rec_overlap, ends >>

\* ------------------------------------------------------------ Session.record
\* session.py 168-174 with on_event_record (instrumentation.py 240-281): a
\* session that is not running ignores the event.  Otherwise event_recorded is
\* sent; the handler asserts the tracer, completes the event's timestamps,
\* opens the span and, for an event type that is a key of event_counts, reads
\* the counter (first half of `event_counts[event_type] += 1`; no lock is held).
Session_record_call(t) ==
    /\ impl = "session"
    /\ CanCall(t)
    /\ calls' = calls + 1
    /\ \E e \in EventInputs :
         LET ev == NewEvent(e[1], e[2], ConstructTime) IN
           IF ~is_running
           THEN /\ Return(t)
                /\ UNCHANGED << recorded, rec_overlap >>
           ELSE /\ Goto(t, "rec_send", [IdleFrame EXCEPT !.op = "record", !.ev = ev,
                                                          !.flush_now = e[3]])
                /\ recorded' = IF PipelineUp THEN Bump(recorded, ClassCategory(ev.cls))
                                             ELSE recorded
                /\ rec_overlap' = (rec_overlap \/ \E u \in Threads \ {t} : InRecord(pc[u]))
    /\ UNCHANGED << impl, component_vars, session_vars, effect_vars, lock_vars, incs, ends, start_log >>

Session_record_send(t) ==
    /\ impl = "session"
    /\ pc[t] = "rec_send"
    /\ sent' = Bump(sent, "event_recorded")
    /\ IF tracer = None
       THEN /\ Return(t)
            /\ UNCHANGED flushes
       ELSE IF InCountsByName(fr[t].ev)
       THEN /\ Goto(t, "rec_write",
                    [fr[t] EXCEPT !.ev.end_timestamp = IF @ = 0 THEN Now ELSE @,
                                  !.rd = event_counts[EventTypeName(fr[t].ev)]])
            /\ UNCHANGED flushes
       ELSE /\ flushes' = IF fr[t].flush_now THEN flushes + 1 ELSE flushes
            /\ Return(t)
    /\ UNCHANGED << impl, component_vars, session_vars, tracer, registered, net, starts, lock_vars,
                    calls, history_vars >>

\* instrumentation.py 281-285: the incremented value is stored; a flush_now
\* call force-flushes the span processor before record() returns.
Session_record_write(t) ==
    /\ impl = "session"
    /\ pc[t] = "rec_write"
    /\ event_counts' = [event_counts EXCEPT ![EventTypeName(fr[t].ev)] = fr[t].rd + 1]
    /\ incs' = Bump(incs, EventTypeName(fr[t].ev))
    /\ flushes' = IF fr[t].flush_now THEN flushes + 1 ELSE flushes
    /\ Return(t)
    /\ UNCHANGED << impl, component_vars, is_running, end_timestamp, end_state, end_state_reason, tags,
                    token_cost, tracer, registered, sent, net, starts, lock_vars, calls,
                    recorded, rec_overlap, ends, start_log >>

\* ------------------------------------------------ Session.add_tags / set_tags
\* session.py 176-185 and 199-206: a session that is not running ignores the
\* call; the argument is normalised to a list.
Session_tags_call(t) ==
    /\ impl = "session"
    /\ CanCall(t)
    /\ calls' = calls + 1
    /\ \E a \in TagInputs :
           IF ~is_running
           THEN Return(t)
           ELSE Goto(t, "tags_mutate",
                     [IdleFrame EXCEPT !.op = a[1], !.tg = NormalizeTags(a[2]), !.raw = a[2]])
    /\ UNCHANGED << impl, component_vars, session_vars, effect_vars, lock_vars, history_vars >>

\* session.py 192-194 (append what is new) and 209 (replace by a copy)
Session_tags_mutate(t) ==
    /\ impl = "session"
    /\ pc[t] = "tags_mutate"
    /\ tags' = IF fr[t].op = "add_tags" THEN AppendNew(tags, fr[t].tg) ELSE fr[t].tg
    /\ tag_log' = Append(tag_log, TagEntry(t, fr[t].op, fr[t].raw, tags, tags', 0, <<>>))
    /\ pc' = [pc EXCEPT ![t] = "upd_lock"]
    /\ UNCHANGED << impl, outside_vars, tx_raised, is_running, end_timestamp, end_state, end_state_reason,
                    event_counts, token_cost, effect_vars, lock_vars, fr, calls,
                    history_vars >>

\* session.py 320-327, _update_session: a session that is not running is not
\* updated; otherwise _lock is taken and session_updated is sent.
Session_update_lock(t) ==
    /\ impl = "session"
    /\ pc[t] = "upd_lock"
    /\ IF ~is_running
       THEN /\ Return(t)
            /\ UNCHANGED << lock, sent >>
       ELSE /\ lock = None
            /\ lock' = t
            /\ sent' = Bump(sent, "session_updated")
            /\ pc' = [pc EXCEPT ![t] = "upd_post"]
            /\ UNCHANGED fr
    /\ UNCHANGED << impl, component_vars, session_vars, tracer, registered, net, flushes, starts,
                    end_session_lock, calls, history_vars >>

\* the index of the latest entry of thread t in the tags log
LastTagEntry(t) ==
    CHOOSE i \in 1..Len(tag_log) :
        /\ tag_log[i].t = t
        /\ \A j \in (i + 1)..Len(tag_log) : tag_log[j].t # t

\* session.py 329-339: the update_session request, made under _lock, carries
\* the session as it is now (`self.__dict__`); an ApiServerException is
\* logged, any other exception leaves the call.
Session_update_post(t) ==
    /\ impl = "session"
    /\ pc[t] = "upd_post"
    /\ net' = Bump(net, "update_tags")
    /\ tag_log' = [tag_log EXCEPT ![LastTagEntry(t)] =
                       [@ EXCEPT !.posts = @ + 1, !.payload = tags]]
    /\ lock' = None
    /\ \E out \in PostOutcomes :
          tx_raised' = IF out = "error" THEN tx_raised \cup {fr[t].op} ELSE tx_raised
    /\ Return(t)
    /\ UNCHANGED << impl, outside_vars, session_vars, tracer, registered, sent, flushes, starts,
                    end_session_lock, calls, history_vars >>

\* ------------------------------------------------------ Session.get_analytics
\* session.py 418-436, called by the application (tests/test_session.py 235):
\* an unset end_timestamp is set to now, update_session is requested once and a
\* response sets token_cost.
Session_get_analytics(t) ==
    /\ impl = "session"
    /\ CanCall(t)
    /\ calls' = calls + 1
    /\ end_timestamp' = IF end_timestamp = 0 THEN 2 * calls' + 1 ELSE end_timestamp
    /\ net' = Bump(net, "update_session")
    /\ \E out \in PostOutcomes :
          token_cost' = IF out = "ok" THEN ServerCost ELSE token_cost
    /\ UNCHANGED << impl, component_vars, is_running, end_state, end_state_reason, tags, event_counts,
                    tracer, registered, sent, flushes, starts, lock_vars, pc, fr,
                    history_vars >>

SessionNext(t) ==
    \/ Session_end_call(t) \/ Session_end_enter(t) \/ Session_end_update(t)
    \/ Session_end_finally(t) \/ Session_end_ended(t)
    \/ Session_start_enter(t) \/ Session_start_started(t)
    \/ Session_record_call(t) \/ Session_record_send(t) \/ Session_record_write(t)
    \/ Session_tags_call(t) \/ Session_tags_mutate(t)
    \/ Session_update_lock(t) \/ Session_update_post(t)
    \/ Session_get_analytics(t)

\* ================================================================ manager.py
\* ------------------------------------------------ SessionManager.start_session
\* manager.py 49-57: under _lock the session is created on the server; on
\* success the JWT is stored and the session is added to the registry.  The
\* state of the session is neither tested nor changed.
Manager_start_session(t) ==
    /\ impl = "manager"
    /\ CanCall(t)
    /\ calls' = calls + 1
    /\ lock = None
    /\ net' = Bump(net, "create_session")
    /\ \E success \in BOOLEAN :
          /\ registered' = (registered \/ success)
          /\ starts' = IF success THEN starts + 1 ELSE starts
          /\ ReturnStart(t, SessionState, IF success THEN "True" ELSE "False", FALSE)
    /\ UNCHANGED << impl, component_vars, session_vars, tracer, sent, flushes, lock_vars,
                    recorded, incs, rec_overlap, ends >>

\* --------------------------------------- SessionManager.add_tags / set_tags
\* manager.py 73-94: under _lock the tags are extended or replaced and sent to
\* the server; is_running is not consulted.
Manager_tags(t) ==
    /\ impl = "manager"
    /\ CanCall(t)
    /\ calls' = calls + 1
    /\ lock = None
    /\ \E a \in TagInputs :
          /\ tags' = IF a[1] = "add_tags" THEN Manager_extend(tags, a[2])
                                          ELSE Manager_replace(a[2])
          /\ tag_log' = Append(tag_log, TagEntry(t, a[1], a[2], tags, tags', 1, tags'))
    /\ net' = Bump(net, "update_tags")
    /\ UNCHANGED << impl, outside_vars, tx_raised, is_running, end_timestamp, end_state, end_state_reason,
                    event_counts, token_cost, tracer, registered, sent, flushes, starts,
                    lock_vars, pc, fr, history_vars >>

\* ------------------------------------------------ SessionManager.record_event
\* manager.py 96-105: under _lock the counter of the event's type is
\* incremented if `event.event_type in event_counts`, then the event is handed
\* to the telemetry; is_running is not consulted.
Manager_record_event(t) ==
    /\ impl = "manager"
    /\ CanCall(t)
    /\ calls' = calls + 1
    /\ lock = None
    /\ \E e \in EventInputs :
         LET ev == NewEvent(e[1], e[2], ConstructTime) IN
           /\ recorded' = IF is_running /\ PipelineUp
                           THEN Bump(recorded, ClassCategory(ev.cls)) ELSE recorded
           /\ IF InCountsByValue(ev)
              THEN /\ event_counts' = Bump(event_counts, ev.event_type.v)
                   /\ incs' = Bump(incs, ev.event_type.v)
              ELSE UNCHANGED << event_counts, incs >>
    /\ UNCHANGED << impl, component_vars, is_running, end_timestamp, end_state, end_state_reason, tags,
                    token_cost, effect_vars, lock_vars, pc, fr, rec_overlap, ends,
                    start_log >>

\* -------------------------------------------------- SessionManager.end_session
\* manager.py 107-110: the call; it then waits for _end_session_lock.
Manager_end_call(t) ==
    /\ impl = "manager"
    /\ CanCall(t)
    /\ \E a \in EndInputs :
          Goto(t, "m_end_lock", [IdleFrame EXCEPT !.op = "end", !.es = a[1], !.rsn = a[2]])
    /\ calls' = calls + 1
    /\ UNCHANGED << impl, component_vars, session_vars, effect_vars, lock_vars, history_vars >>

\* manager.py 112: `if not self._state.is_running`
Manager_end_already_ended == ~is_running

\* manager.py 111-118 and 131-133: the lock is taken; an ended session returns
\* None; otherwise the telemetry is flushed.  A flush that raises is logged by
\* the `except Exception` and end_session returns None.
Manager_end_enter(t) ==
    /\ impl = "manager"
    /\ pc[t] = "m_end_lock"
    /\ end_session_lock = None
    /\ IF Manager_end_already_ended
       THEN /\ ReturnEnd(t, Entered(fr[t]), FALSE, None, FALSE, is_running, end_state,
                         end_timestamp)
            /\ UNCHANGED << end_session_lock, flushes >>
       ELSE /\ flushes' = flushes + 1
            /\ LET f == [Entered(fr[t]) EXCEPT !.fls = @ + 1] IN
               \E raises \in BOOLEAN :
                  IF raises
                  THEN /\ ReturnEnd(t, f, TRUE, None, FALSE, is_running, end_state,
                                    end_timestamp)
                       /\ UNCHANGED end_session_lock
                  ELSE /\ end_session_lock' = t
                       /\ Goto(t, "m_end_fields", f)
                       /\ UNCHANGED ends
    /\ UNCHANGED << impl, component_vars, session_vars, tracer, registered, sent, net, starts, lock,
                    calls, recorded, incs, rec_overlap, start_log >>

\* manager.py 120-123: the end fields are written while is_running is still True
Manager_end_fields(t) ==
    /\ impl = "manager"
    /\ pc[t] = "m_end_fields"
    /\ end_timestamp' = Now
    /\ end_state' = fr[t].es
    /\ end_state_reason' = fr[t].rsn
    /\ pc' = [pc EXCEPT ![t] = "m_end_finish"]
    /\ UNCHANGED << impl, component_vars, is_running, tags, event_counts, token_cost, effect_vars,
                    lock_vars, fr, calls, history_vars >>

\* manager.py 124-133 with _get_analytics (135-160): is_running is cleared and
\* one update_session request is made.  A response sets token_cost, removes the
\* session from the registry and is answered by token_cost; no response, or an
\* exception, is answered by None.
Manager_end_finish(t) ==
    /\ impl = "manager"
    /\ pc[t] = "m_end_finish"
    /\ is_running' = FALSE
    /\ net' = Bump(net, "update_session")
    /\ end_session_lock' = None
    /\ \E out \in PostOutcomes :
          /\ token_cost' = IF out = "ok" THEN ServerCost ELSE token_cost
          /\ registered' = IF out = "ok" THEN FALSE ELSE registered
          /\ ReturnEnd(t, [fr[t] EXCEPT !.upd = @ + 1], TRUE,
                       IF out = "ok" THEN "token_cost" ELSE None, FALSE,
                       FALSE, end_state, end_timestamp)
    /\ UNCHANGED << impl, component_vars, end_timestamp, end_state, end_state_reason, tags, event_counts,
                    tracer, sent, flushes, starts, lock, calls, recorded, incs,
                    rec_overlap, start_log >>

ManagerNext(t) ==
    \/ Manager_start_session(t) \/ Manager_tags(t) \/ Manager_record_event(t)
    \/ Manager_end_call(t) \/ Manager_end_enter(t) \/ Manager_end_fields(t)
    \/ Manager_end_finish(t)

\* ================================================================== events
HandlerEntry(h, pre, post, raised, assigns) ==
    [h |-> h, pre |-> pre, post |-> post, raised |-> raised, assigns |-> assigns]

CanHandle == impl = "event" /\ calls < MaxCalls /\ ev_pending.left = 0

\* one whole invocation of a handler that ends with end_timestamp post
Handled(h, post, raised, assigns) ==
    /\ calls' = calls + 1
    /\ event' = [event EXCEPT !.end_timestamp = post]
    /\ ev_log' = Append(ev_log, HandlerEntry(h, event.end_timestamp, post, raised, assigns))
    /\ UNCHANGED << impl, span_vars, init_vars, tx_raised, tag_log, lifecycle_vars, exporter_vars, pipeline_vars, multi_vars,
                    ev_pending >>

\* event.py 31-36, on_event_recorded: asserts that end_timestamp is unset, then
\* sets it.
Event_on_event_recorded ==
    /\ CanHandle
    /\ IF event.end_timestamp # 0
       THEN Handled("on_event_recorded", event.end_timestamp, TRUE, 0)
       ELSE Handled("on_event_recorded", EventTime(1), FALSE, 1)

\* event.py 39-44, on_event_completed: sets end_timestamp if it is unset.
Event_on_event_completed ==
    /\ CanHandle
    /\ IF event.end_timestamp # 0
       THEN Handled("on_event_completed", event.end_timestamp, FALSE, 0)
       ELSE Handled("on_event_completed", EventTime(1), FALSE, 1)

\* instrumentation.py 240-252, on_event_record: sets end_timestamp if it is None.
Instrumentation_on_event_record ==
    /\ CanHandle
    /\ IF event.end_timestamp # 0
       THEN Handled("on_event_record", event.end_timestamp, FALSE, 0)
       ELSE Handled("on_event_record", EventTime(1), FALSE, 1)

\* telemetry/instrumentation.py 327-336, _on_session_event_recorded: the event
\* is encoded into its span definitions.
Telemetry_on_session_event_recorded ==
    /\ CanHandle
    /\ calls' = calls + 1
    /\ ev_pending' = [left |-> SpanCount(event.cls), pre |-> event.end_timestamp]
    /\ UNCHANGED << impl, span_vars, init_vars, tx_raised, tag_log, lifecycle_vars, exporter_vars, pipeline_vars, multi_vars,
                    event, ev_log >>

\* telemetry/instrumentation.py 337-347: inside each span
\* `event.end_timestamp = get_ISO_time()` is executed, whatever the value was.
Telemetry_on_session_event_recorded_span ==
    /\ impl = "event"
    /\ ev_pending.left > 0
    /\ LET k == SpanCount(event.cls) - ev_pending.left + 1 IN
         /\ event' = [event EXCEPT !.end_timestamp = EventTime(k) - 2]
         /\ IF ev_pending.left = 1
            THEN /\ ev_pending' = NoPending
                 /\ ev_log' = Append(ev_log,
                        HandlerEntry("_on_session_event_recorded", ev_pending.pre,
                                     EventTime(k) - 2, FALSE, SpanCount(event.cls)))
            ELSE /\ ev_pending' = [ev_pending EXCEPT !.left = @ - 1]
                 /\ UNCHANGED ev_log
    /\ UNCHANGED << impl, span_vars, init_vars, tx_raised, tag_log, lifecycle_vars, exporter_vars, pipeline_vars, multi_vars,
                    calls >>

EventNext ==
    \/ Event_on_event_recorded
    \/ Event_on_event_completed
    \/ Instrumentation_on_event_record
    \/ Telemetry_on_session_event_recorded
    \/ Telemetry_on_session_event_recorded_span

\* =============================================================== exporters
\* The spans of a batch that an exporter sends: SessionLifecycleExporter keeps
\* session.start/session.end (instrumentation/session/exporters.py 58-59),
\* RegularEventExporter the others (78-79); the exporters of
\* session/exporters.py send every entry (51-70, 141-146).
Selected(kind, batch) ==
    CASE kind = "SessionLifecycleExporter" ->
            SelectSeq(batch, LAMBDA n : n \in LifecycleSpanNames)
      [] kind = "RegularEventExporter" ->
            SelectSeq(batch, LAMBDA n : n \notin LifecycleSpanNames)
      [] OTHER -> batch

\* instrumentation/session/exporters.py 60, 80: `dict(span.to_json())`.
\* ReadableSpan.to_json() returns the JSON text of the span, a str, and dict()
\* of a non-empty str raises ValueError.
DictOfToJson(span) == "ValueError"

\* what an exception that reaches the outer `except Exception` of export()
\* becomes: re-raised under TESTING, FAILURE otherwise
\* (session/exporters.py 90-94, 153-157; instrumentation/session/exporters.py 34-38)
Swallow(testing) == IF testing THEN "raise" ELSE "FAILURE"

\* The body of export() past the shutdown check: the result, and the number of
\* HTTP requests made.
\* SessionExporter (session/exporters.py 43-94) and SessionLogExporter
\* (129-157): an empty batch is a success without a request; otherwise one
\* request, SUCCESS iff the status is 200, an exception as Swallow says.
\* BaseExporter.export with the _export of its two subclasses
\* (instrumentation/session/exporters.py 30-38, 56-91): an empty batch is a
\* success; each selected span is converted, which raises into the outer
\* except; a batch without selected spans is a success without a request;
\* create_events raising is a FAILURE (68-70, 88-90), returning is a SUCCESS.
ExportBody(kind, testing, batch, resp) ==
    IF batch = <<>> THEN [result |-> "SUCCESS", net |-> 0]
    ELSE IF kind \in {"SessionExporter", "SessionLogExporter"}
    THEN [result |-> CASE resp = "200" -> "SUCCESS"
                       [] resp = "500" -> "FAILURE"
                       [] OTHER -> Swallow(testing),
          net |-> 1]
    ELSE IF Selected(kind, batch) = <<>> THEN [result |-> "SUCCESS", net |-> 0]
    ELSE IF \E i \in 1..Len(Selected(kind, batch)) :
                DictOfToJson(Selected(kind, batch)[i]) = "ValueError"
    THEN [result |-> Swallow(testing), net |-> 0]
    ELSE [result |-> IF resp = "exception" THEN "FAILURE" ELSE "SUCCESS", net |-> 1]

ExportEntry(t, arg, checked, out) ==
    [t |-> t, batch |-> arg.batch, resp |-> arg.resp, checked |-> checked,
     result |-> out.result, net |-> out.net, down |-> x_down]

\* export() up to the shutdown check (session/exporters.py 39-41, 125-127;
\* instrumentation/session/exporters.py 25-28): a shut down exporter answers
\* SUCCESS at once.
Exporter_export_call(t) ==
    /\ impl = "exporter"
    /\ x_pc[t] = "idle"
    /\ calls < MaxCalls
    /\ calls' = calls + 1
    /\ \E b \in Batches, r \in Responses :
         /\ x_arg' = [x_arg EXCEPT ![t] = [batch |-> b, resp |-> r]]
         /\ IF x_shutdown
            THEN /\ x_log' = Append(x_log,
                        ExportEntry(t, [batch |-> b, resp |-> r], FALSE,
                                    [result |-> "SUCCESS", net |-> 0]))
                 /\ UNCHANGED x_pc
            ELSE /\ x_pc' = [x_pc EXCEPT ![t] = "export"]
                 /\ UNCHANGED x_log
    /\ UNCHANGED << impl, span_vars, init_vars, tx_raised, tag_log, lifecycle_vars, event_vars, pipeline_vars, multi_vars,
                    x_kind, x_testing,
                    x_shutdown, x_down, x_net >>

\* the rest of export(): SessionExporter runs it under _export_lock, which
\* shutdown() does not take; the other exporters have no lock.
Exporter_export_send(t) ==
    /\ impl = "exporter"
    /\ x_pc[t] = "export"
    /\ LET out == ExportBody(x_kind, x_testing, x_arg[t].batch, x_arg[t].resp) IN
         /\ x_net' = x_net + out.net
         /\ x_log' = Append(x_log, ExportEntry(t, x_arg[t], TRUE, out))
    /\ x_pc' = [x_pc EXCEPT ![t] = "idle"]
    /\ UNCHANGED << impl, span_vars, init_vars, tx_raised, tag_log, lifecycle_vars, event_vars, pipeline_vars, multi_vars,
                    calls, x_kind, x_testing,
                    x_shutdown, x_down, x_arg >>

\* shutdown() (session/exporters.py 99-102, 166-170;
\* instrumentation/session/exporters.py 45-47): the flag is set.
Exporter_shutdown(t) ==
    /\ impl = "exporter"
    /\ x_pc[t] = "idle"
    /\ calls < MaxCalls
    /\ calls' = calls + 1
    /\ x_shutdown' = TRUE
    /\ x_down' = x_down + 1
    /\ UNCHANGED << impl, span_vars, init_vars, tx_raised, tag_log, lifecycle_vars, event_vars, pipeline_vars, multi_vars,
                    x_kind, x_testing,
                    x_pc, x_arg, x_net, x_log >>

ExporterNext ==
    \E t \in Threads :
        \/ Exporter_export_call(t)
        \/ Exporter_export_send(t)
        \/ Exporter_shutdown(t)

\* ================================================================ teardown
Step(stage, op) == [stage |-> stage, op |-> op]

\* one step of kind op on each stage of a list, in order
Each(stages, op) == [i \in 1..Len(stages) |-> Step(stages[i], op)]

\* instrumentation.py 163-176, SessionTracer.cleanup, with the order of flush
\* and shutdown exchanged
SessionTracer_cleanup_shutdown_first(flush_raises) ==
    << Step("span_processor", "shutdown") >>
    \o (IF flush_raises THEN <<>> ELSE << Step("span_processor", "flush") >>)
    \o << Step("exporter", "shutdown") >>

\* instrumentation.py 163-176, SessionTracer.cleanup: force_flush and shutdown
\* of the span processor in one try block (a raising flush skips the
\* shutdown), then shutdown of the exporter; exceptions are logged.
SessionTracer_cleanup_steps(flush_raises) ==
    << Step("span_processor", "flush") >>
    \o (IF flush_raises THEN <<>> ELSE << Step("span_processor", "shutdown") >>)
    \o << Step("exporter", "shutdown") >>

\* instrumentation/session/tracer.py 96-104 and 196-201: SessionInstrumentor's
\* __init__ calls instrument(), and setup_session_tracer calls it again; each
\* call appends a lifecycle and a regular InFlightSpanProcessor (130-139).
Instrumentor_processors == << "lifecycle_1", "regular_1", "lifecycle_2", "regular_2" >>

\* instrumentation/session/tracer.py 162-186, SessionInstrumentor.shutdown past
\* the _is_shutdown check: every processor is flushed, the root span is ended,
\* every processor is shut down (each in its own try), then the provider is
\* flushed and shut down in one try block.
SessionInstrumentor_shutdown_steps(provider_flush_raises) ==
    Each(Instrumentor_processors, "flush")
    \o << Step("root_span", "end") >>
    \o Each(Instrumentor_processors, "shutdown")
    \o << Step("provider", "flush") >>
    \o (IF provider_flush_raises THEN <<>> ELSE << Step("provider", "shutdown") >>)

\* telemetry/instrumentation.py 211-218, cleanup_session_tracer once the
\* components were popped: processor.force_flush, processor.shutdown and
\* provider.shutdown in one try block; raise_at names the call that raises.
RaisePoints == {"none", "flush", "shutdown"}

cleanup_session_tracer_steps(raise_at) ==
    << Step("processor", "flush") >>
    \o (IF raise_at = "flush" THEN <<>>
        ELSE << Step("processor", "shutdown") >>
             \o (IF raise_at = "shutdown" THEN <<>>
                 ELSE << Step("provider", "shutdown") >>))

\* telemetry/processors.py 129-133, SessionSpanProcessor.shutdown: the export
\* thread is stopped and joined, then the wrapped processor is shut down,
\* whether or not this processor was shut down before.
SessionSpanProcessor_shutdown_steps == << Step("wrapped_processor", "shutdown") >>

CallEntry(steps, raised) ==
    [kind |-> p_kind, nth |-> Len(p_calls) + 1, steps |-> steps, raised |-> raised]

Teardown(steps, raised, done) ==
    /\ calls' = calls + 1
    /\ p_calls' = Append(p_calls, CallEntry(steps, raised))
    /\ p_done' = done
    /\ UNCHANGED << impl, span_vars, init_vars, tx_raised, tag_log, lifecycle_vars, event_vars, exporter_vars,
                    multi_vars, p_kind >>

CanTeardown(kind) == impl = "pipeline" /\ p_kind = kind /\ calls < MaxCalls

\* on_session_end -> sender._tracer.cleanup() (instrumentation.py 237, 163-176);
\* cleanup has no guard against being run again.
Pipeline_SessionTracer_cleanup ==
    /\ CanTeardown("SessionTracer")
    /\ \E flush_raises \in BOOLEAN :
          Teardown(SessionTracer_cleanup_steps(flush_raises), FALSE, TRUE)

\* instrumentation/session/tracer.py 154-189, SessionInstrumentor.shutdown
\* (also run by uninstrument and atexit): a no-op once _is_shutdown is set.
Pipeline_SessionInstrumentor_shutdown ==
    /\ CanTeardown("SessionInstrumentor")
    /\ IF p_done
       THEN Teardown(<<>>, FALSE, TRUE)
       ELSE \E provider_flush_raises \in BOOLEAN :
              Teardown(SessionInstrumentor_shutdown_steps(provider_flush_raises), FALSE, TRUE)

\* telemetry/instrumentation.py 198-218, cleanup_session_tracer: nothing is
\* done when the session's components are no longer registered.
Pipeline_cleanup_session_tracer ==
    /\ CanTeardown("cleanup_session_tracer")
    /\ IF p_done
       THEN Teardown(<<>>, FALSE, TRUE)
       ELSE \E raise_at \in RaisePoints :
              Teardown(cleanup_session_tracer_steps(raise_at), FALSE, TRUE)

\* telemetry/processors.py 129-133: an exception of the wrapped processor's
\* shutdown leaves SessionSpanProcessor.shutdown.
Pipeline_SessionSpanProcessor_shutdown ==
    /\ CanTeardown("SessionSpanProcessor")
    /\ \E raises \in BOOLEAN :
          Teardown(SessionSpanProcessor_shutdown_steps, raises, TRUE)

PipelineNext ==
    \/ Pipeline_SessionTracer_cleanup
    \/ Pipeline_SessionInstrumentor_shutdown
    \/ Pipeline_cleanup_session_tracer
    \/ Pipeline_SessionSpanProcessor_shutdown

\* ============================================================ two sessions
\* The provider a session's tracer is taken from.
\* instrumentation.py 141-145 (SessionTracer.__init__) and
\* telemetry/instrumentation.py 93-112 (_setup_trace_provider) create a
\* TracerProvider for the session.  instrumentation/session/tracer.py 116-127
\* (SessionInstrumentor.instrument) takes the global provider if it is an SDK
\* provider and creates one, which it makes the global one, otherwise.
ProviderFor(s) ==
    IF m_wiring = "SessionInstrumentor" /\ m_global # None THEN m_global ELSE s

\* session_started for session s: the pipeline is built and the session's
\* processors (with its exporters) are added to the provider
\* (instrumentation.py 141-161; telemetry/instrumentation.py 165-193;
\* instrumentation/session/tracer.py 129-144).
Multi_session_started(s) ==
    /\ impl = "sessions"
    /\ calls < MaxCalls
    /\ m_provider[s] = None
    /\ calls' = calls + 1
    /\ m_last' = s
    /\ m_running' = [m_running EXCEPT ![s] = TRUE]
    /\ m_provider' = [m_provider EXCEPT ![s] = ProviderFor(s)]
    /\ m_attached' = [m_attached EXCEPT ![ProviderFor(s)] = @ \cup {s}]
    /\ m_global' = IF m_wiring = "SessionInstrumentor" /\ m_global = None
                   THEN s ELSE m_global
    /\ UNCHANGED << impl, span_vars, init_vars, tx_raised, tag_log, lifecycle_vars, event_vars,
                    exporter_vars, pipeline_vars, m_wiring, m_delivered, m_counts, m_down >>

\* an event recorded on session s (session.py 168-174): its span is created by
\* the session's tracer and ends on every processor of that tracer's provider,
\* each of which hands it to its own session's exporter (session/exporters.py
\* 49-70 and instrumentation/session/exporters.py 76-82 stamp it with that
\* session's id); an exporter that is shut down drops it.  The handler counts
\* the event on the sender.
Multi_record(s) ==
    /\ impl = "sessions"
    /\ calls < MaxCalls
    /\ m_provider[s] # None
    /\ m_running[s]
    /\ calls' = calls + 1
    /\ m_last' = s
    /\ m_counts' = [m_counts EXCEPT ![s] = @ + 1]
    /\ m_delivered' = [x \in Sessions |->
                         IF x \in m_attached[m_provider[s]] \ m_down
                         THEN m_delivered[x] \cup {s} ELSE m_delivered[x]]
    /\ UNCHANGED << impl, span_vars, init_vars, tx_raised, tag_log, lifecycle_vars, event_vars,
                    exporter_vars, pipeline_vars, m_wiring, m_global, m_provider, m_attached,
                    m_running, m_down >>

\* The sessions whose processors the teardown of session s shuts down.
\* SessionTracer.cleanup (instrumentation.py 163-176) and cleanup_session_tracer
\* (telemetry/instrumentation.py 198-218) shut down the session's own
\* processor and provider; SessionInstrumentor.shutdown (tracer.py 174-186)
\* shuts down its processors and then the provider it was given, with every
\* processor added to that provider.
TornDownBy(s) ==
    IF m_wiring = "SessionInstrumentor" THEN {s} \cup m_attached[m_provider[s]] ELSE {s}

\* end() on session s (session.py 214-262): the session stops running and
\* session_ended tears its pipeline down.
Multi_end(s) ==
    /\ impl = "sessions"
    /\ calls < MaxCalls
    /\ m_provider[s] # None
    /\ m_running[s]
    /\ calls' = calls + 1
    /\ m_last' = s
    /\ m_running' = [m_running EXCEPT ![s] = FALSE]
    /\ m_down' = m_down \cup TornDownBy(s)
    /\ UNCHANGED << impl, span_vars, init_vars, tx_raised, tag_log, lifecycle_vars, event_vars,
                    exporter_vars, pipeline_vars, m_wiring, m_global, m_provider, m_attached,
                    m_delivered, m_counts >>

MultiNext ==
    \E s \in Sessions : Multi_session_started(s) \/ Multi_record(s) \/ Multi_end(s)

\* ============================================================ trace identity
\* The trace id of a span started with parent context `parent` (a trace id, 0
\* for a context without a span): the parent's, or a fresh one.
TraceOf(parent, fresh) == IF parent = 0 THEN fresh ELSE parent

\* The parent context the handler starts the event span in.
\* tracer.py 68-71 attaches the session context (the root span) first;
\* telemetry/instrumentation.py 333 enters trace.use_span(sender.span);
\* instrumentation.py 268 starts the span in whatever is current on the thread.
ParentContext(wiring, t) ==
    IF wiring = "on_event_record" THEN t_current[t] ELSE t_root.trace

\* the application makes a span of its own current on thread t
Trace_use_span(t) ==
    /\ impl = "trace"
    /\ calls < MaxCalls
    /\ t_current[t] = 0
    /\ calls' = calls + 1
    /\ t_current' = [t_current EXCEPT ![t] = t_next]
    /\ t_next' = t_next + 1
    /\ UNCHANGED << impl, settled_vars, batch_vars, inflight_vars, t_wiring, t_root, t_spans >>

\* record() on thread t: the handler starts the event's span
Trace_record(t) ==
    /\ impl = "trace"
    /\ calls < MaxCalls
    /\ calls' = calls + 1
    /\ t_spans' = t_spans \cup
            {[trace |-> TraceOf(ParentContext(t_wiring, t), t_next), id |-> t_next + 1,
              thread |-> t]}
    /\ t_next' = t_next + 2
    /\ UNCHANGED << impl, settled_vars, batch_vars, inflight_vars, t_wiring, t_root, t_current >>

TraceNext == \E t \in Threads : Trace_use_span(t) \/ Trace_record(t)

\* ============================================================ batching stage
min(a, b) == IF a <= b THEN a ELSE b

max(a, b) == IF a >= b THEN a ELSE b

\* a derivation without the lower clamp
max_export_batch_size_unclamped(max_queue_size) ==
    min(max_queue_size \div 20, min(max_queue_size, 32))

\* instrumentation.py 155-158 and telemetry/instrumentation.py 158-161
max_export_batch_size(max_queue_size) ==
    min(max(max_queue_size \div 20, 1), min(max_queue_size, 32))

\* the constructor builds the BatchSpanProcessor with the derived batch size
Batch_construct ==
    /\ impl = "batch"
    /\ ~b_built
    /\ calls < MaxCalls
    /\ calls' = calls + 1
    /\ b_built' = TRUE
    /\ b_batch' = max_export_batch_size(b_queue)
    /\ UNCHANGED << impl, settled_vars, trace_vars, inflight_vars, b_site, b_queue, b_pending, b_exports,
                    b_log >>

\* a processor class that exports each span as it ends
get_processor_cls_simple == "SimpleSpanProcessor"

\* telemetry/instrumentation.py 115-123
get_processor_cls == "BatchSpanProcessor"

\* The processor class of the stage: instrumentation.py 151 names
\* BatchSpanProcessor, telemetry/instrumentation.py 147-154 asks get_processor_cls.
ProcessorCls(site) ==
    IF site = "_setup_span_processor" THEN get_processor_cls ELSE "BatchSpanProcessor"

\* The spans a handler creates for one event: on_event_record starts one span
\* (instrumentation.py 268), _on_session_event_recorded one per span
\* definition of the encoder (telemetry/instrumentation.py 334-341).
SpansOf(site, cls) == IF site = "_setup_span_processor" THEN SpanCount(cls) ELSE 1

\* record(event, flush_now) on a calling thread (session.py 168-174 and the
\* event_recorded handler): each span ends on the session's processor, which
\* queues it (or, for a SimpleSpanProcessor, exports it at once); flush_now
\* force-flushes the processor, whose export thread then exports what is
\* queued while the caller waits.
Batch_record ==
    /\ impl = "batch"
    /\ b_built
    /\ calls < MaxCalls
    /\ calls' = calls + 1
    /\ \E cls \in EventClasses, flush_now \in BOOLEAN :
         LET n == SpansOf(b_site, cls)
             simple == ProcessorCls(b_site) = "SimpleSpanProcessor"
             queued == IF simple THEN 0 ELSE n
             flushed == flush_now /\ b_pending + queued > 0 IN
           /\ b_pending' = IF flush_now THEN 0 ELSE b_pending + queued
           /\ b_exports' = IF flushed THEN b_exports + 1 ELSE b_exports
           /\ b_log' = Append(b_log, [cls |-> cls, flush_now |-> flush_now, spans |-> n,
                                      queued |-> queued,
                                      caller_requests |-> IF simple THEN n ELSE 0,
                                      waited |-> flushed])
    /\ UNCHANGED << impl, settled_vars, trace_vars, inflight_vars, b_site, b_queue, b_built, b_batch >>

\* the stage's export thread exports queued spans (how many at a time is the
\* processor's business)
Batch_worker_export ==
    /\ impl = "batch"
    /\ b_pending > 0
    /\ \E k \in 1..b_pending : b_pending' = b_pending - k
    /\ b_exports' = b_exports + 1
    /\ UNCHANGED << impl, settled_vars, trace_vars, inflight_vars, calls, b_site, b_queue, b_built, b_batch,
                    b_log >>

BatchNext == Batch_construct \/ Batch_record \/ Batch_worker_export

\* ========================================================= in-flight tracker
\* processors.py 62-98: a span that is not recording is left alone; otherwise
\* it is put into the map under the lock and forwarded to the wrapped on_start.
Inflight_on_start ==
    /\ impl = "inflight"
    /\ calls < MaxCalls
    /\ calls' = calls + 1
    /\ \E i \in SpanIds \ f_started :
          /\ f_started' = f_started \cup {i}
          /\ f_since' = [f_since EXCEPT ![i] = f_ticks]
          /\ f_in_flight' = IF f_kind[i].recording THEN f_in_flight \cup {i} ELSE f_in_flight
    /\ UNCHANGED << impl, settled_vars, trace_vars, batch_vars, f_kind, f_ended, f_fwd, f_ticks,
                    f_stop, f_timer, f_sd, f_wrapped_down, f_late, f_real, f_popped, f_after,
                    f_after_stop >>

\* an on_end that leaves the span in the map
Popped_none(map, i) == map

\* processors.py 113-114: the span is taken out of the map
Popped(map, i) == map \ {i}

\* processors.py 100-114: the call returns at once for a span that is not
\* sampled; otherwise the span is popped from the map under the lock.  The
\* tracer calls on_end for the spans it records.
Inflight_on_end ==
    /\ impl = "inflight"
    /\ calls < MaxCalls
    /\ calls' = calls + 1
    /\ \E i \in f_started \ f_ended :
          /\ f_kind[i].recording
          /\ f_ended' = f_ended \cup {i}
          /\ f_in_flight' = IF f_kind[i].sampled THEN Popped(f_in_flight, i) ELSE f_in_flight
          /\ f_popped' = IF f_kind[i].sampled THEN f_popped \cup {i} ELSE f_popped
    /\ UNCHANGED << impl, settled_vars, trace_vars, batch_vars, f_kind, f_started, f_fwd, f_since,
                    f_ticks, f_stop, f_timer, f_sd, f_wrapped_down, f_late, f_real, f_after,
                    f_after_stop >>

\* processors.py 116-127: after the lock is released the span is forwarded to
\* the wrapped on_end
Inflight_on_end_forward ==
    /\ impl = "inflight"
    /\ \E i \in f_popped :
          /\ f_popped' = f_popped \ {i}
          /\ f_real' = [f_real EXCEPT ![i] = f_ticks]
    /\ UNCHANGED << impl, settled_vars, trace_vars, batch_vars, calls, f_kind, f_started, f_ended,
                    f_in_flight, f_fwd, f_since, f_ticks, f_stop, f_timer, f_sd,
                    f_wrapped_down, f_late, f_after, f_after_stop >>

\* an export thread that never looks at the stop event
AfterCheck_unstoppable(stop) == "sleep"

\* processors.py 54: the loop is left when the stop event is set
AfterCheck(stop) == IF stop THEN "exited" ELSE "sleep"

\* processors.py 54: the export thread tests the stop event
Inflight_timer_check ==
    /\ impl = "inflight"
    /\ f_timer = "check"
    /\ f_timer' = AfterCheck(f_stop)
    /\ UNCHANGED << impl, settled_vars, trace_vars, batch_vars, calls, f_kind, f_started, f_ended,
                    f_in_flight, f_fwd, f_since, f_ticks, f_stop, f_sd, f_wrapped_down,
                    f_late, f_real, f_popped, f_after, f_after_stop >>

\* a tick that drops what it forwarded from the map
TickKeeps_none(snapshot) == {}

\* processors.py 56-60: the tick leaves the map as it is
TickKeeps(snapshot) == snapshot

\* the ticks made after the stop event was set are bounded
MaxAfterStop == 2

\* processors.py 55-60: after the sleep, under the lock, every span of the map
\* is forwarded to the wrapped on_end.  The ticks before the stop event is set
\* are bounded; a thread that sleeps when it is set still makes its tick.
Inflight_timer_tick ==
    /\ impl = "inflight"
    /\ f_timer = "sleep"
    /\ f_ticks < MaxCalls \/ (f_stop /\ f_after_stop < MaxAfterStop)
    /\ f_ticks' = f_ticks + 1
    /\ f_after_stop' = IF f_stop THEN f_after_stop + 1 ELSE f_after_stop
    /\ f_fwd' = [i \in SpanIds |-> IF i \in f_in_flight THEN f_fwd[i] + 1 ELSE f_fwd[i]]
    /\ f_after' = f_after \cup {i \in f_in_flight : f_real[i] >= 0}
    /\ f_in_flight' = TickKeeps(f_in_flight)
    /\ f_late' = (f_late \/ (f_wrapped_down /\ f_in_flight # {}))
    /\ f_timer' = "check"
    /\ UNCHANGED << impl, settled_vars, trace_vars, batch_vars, calls, f_kind, f_started, f_ended,
                    f_since, f_stop, f_sd, f_wrapped_down, f_real, f_popped >>

\* a shutdown that delegates before it joins the export thread
SessionSpanProcessor_shutdown_unjoined == << "set", "shutdown", "join" >>

\* processors.py 131-133: the statements of shutdown(), in order
SessionSpanProcessor_shutdown_order == << "set", "join", "shutdown" >>

\* processors.py 129-133: shutdown() sets the stop event, joins the export
\* thread (which waits until it has exited) and shuts the wrapped processor down.
Inflight_shutdown ==
    /\ impl = "inflight"
    /\ IF f_sd = 0 THEN calls < MaxCalls /\ calls' = calls + 1 ELSE UNCHANGED calls
    /\ f_sd <= Len(SessionSpanProcessor_shutdown_order)
    /\ LET k == IF f_sd = 0 THEN 1 ELSE f_sd
           stmt == SessionSpanProcessor_shutdown_order[k] IN
         /\ stmt = "join" => f_timer = "exited"
         /\ f_stop' = (f_stop \/ stmt = "set")
         /\ f_wrapped_down' = (f_wrapped_down \/ stmt = "shutdown")
         /\ f_sd' = k + 1
    /\ UNCHANGED << impl, settled_vars, trace_vars, batch_vars, f_kind, f_started, f_ended,
                    f_in_flight, f_fwd, f_since, f_ticks, f_timer, f_late, f_real, f_popped,
                    f_after, f_after_stop >>

InflightNext ==
    \/ Inflight_on_start \/ Inflight_on_end \/ Inflight_on_end_forward
    \/ Inflight_timer_check \/ Inflight_timer_tick \/ Inflight_shutdown

\* ------------------------------------------------- the converter
\* converter.py 82-90: a str, int, float, bool or None is returned as it is, a
\* UUID as its string, a dict or list as its JSON text, anything else as str().
span_safe(value) ==
    IF value \in {"str", "int", "float", "bool", "None"} THEN value ELSE "str"

\* converter.py 93-105: the attributes of a span definition are the given ones,
\* each value passed through span_safe
SpanDefinition(name, attributes) ==
    [name |-> name, attributes |-> {<< a[1], span_safe(a[2]) >> : a \in attributes}]

\* str(x) if x else None
StrIfSet(x) == IF x = "None" THEN "None" ELSE "str"

\* converter.py 152-162
get_span_name(e) ==
    CASE e.kind = "llm" -> "llm.completion"
      [] e.kind = "action" -> "agent.action"
      [] e.kind = "tool" -> "agent.tool"
      [] e.kind = "error" -> "error"

\* converter.py 175-268: the attributes of the main span
get_span_attributes(e) ==
    {<< "EVENT_START_TIME", "str" >>, << "EVENT_END_TIME", e.end_timestamp >>,
     << "EVENT_ID", "str" >>, << "SESSION_ID", StrIfSet(e.session_id) >>}
    \cup (IF e.agent_id # "None" THEN {<< "AGENT_ID", "str" >>, << "agent_id", "str" >>} ELSE {})
    \cup (CASE e.kind = "llm" ->
              {<< "LLM_MODEL", "str" >>, << "LLM_PROMPT", "str" >>, << "LLM_COMPLETION", "str" >>,
               << "LLM_TOKENS_PROMPT", "int" >>, << "LLM_TOKENS_COMPLETION", "int" >>,
               << "LLM_COST", e.cost >>, << "LLM_TOKENS_TOTAL", "int" >>,
               << "model", "str" >>, << "prompt", "str" >>, << "completion", "str" >>,
               << "prompt_tokens", "int" >>, << "completion_tokens", "int" >>,
               << "cost", e.cost >>}
          [] e.kind = "action" ->
              {<< "ACTION_TYPE", "str" >>, << "ACTION_PARAMS", e.params >>,
               << "ACTION_RESULT", e.returns >>, << "ACTION_LOGS", e.logs >>,
               << "action_type", "str" >>, << "params", e.params >>,
               << "returns", e.returns >>, << "logs", e.logs >>}
          [] e.kind = "tool" ->
              {<< "TOOL_NAME", "str" >>, << "TOOL_PARAMS", e.params >>,
               << "TOOL_RESULT", e.returns >>, << "TOOL_LOGS", e.logs >>,
               << "name", "str" >>, << "params", e.params >>,
               << "returns", e.returns >>, << "logs", e.logs >>}
          [] e.kind = "error" ->
              {<< "ERROR", "bool" >>, << "ERROR_TYPE", "str" >>, << "ERROR_DETAILS", "str" >>,
               << "error", "bool" >>, << "error_type", "str" >>, << "details", "str" >>,
               << "trigger_event", e.trigger_event >>}
              \cup (IF e.trigger_event # "None"
                    THEN {<< "TRIGGER_EVENT_ID", "str" >>, << "TRIGGER_EVENT_TYPE", "str" >>,
                          << "trigger_event_id", "str" >>, << "trigger_event_type", "str" >>}
                    ELSE {}))

\* converter.py 270-348: the child span of an llm, action or tool event; an
\* error event has none
create_child_span(e) ==
    LET base_attributes ==
            {<< "TIME_START", "str" >>, << "TIME_END", e.end_timestamp >>,
             << "EVENT_ID", "str" >>, << "start_time", "str" >>,
             << "end_time", e.end_timestamp >>, << "event_id", "str" >>,
             << "EVENT_DATA", "str" >>}
        given_params ==
            IF e.params # "None" THEN {<< "params", "str" >>} ELSE {}
    IN  CASE e.kind = "action" ->
               << SpanDefinition("action.execution",
                    base_attributes
                    \cup {<< "EXECUTION_START_TIME", "str" >>,
                          << "EXECUTION_END_TIME", e.end_timestamp >>,
                          << "ACTION_TYPE", "str" >>, << "action_type", "str" >>}
                    \cup (IF e.params # "None" THEN {<< "ACTION_PARAMS", "str" >>} ELSE {})
                    \cup given_params) >>
          [] e.kind = "tool" ->
               << SpanDefinition("tool.execution",
                    base_attributes
                    \cup {<< "EXECUTION_START_TIME", "str" >>,
                          << "EXECUTION_END_TIME", e.end_timestamp >>,
                          << "TOOL_NAME", "str" >>, << "name", "str" >>}
                    \cup (IF e.params # "None" THEN {<< "TOOL_PARAMS", "str" >>} ELSE {})
                    \cup given_params) >>
          [] e.kind = "llm" ->
               << SpanDefinition("llm.api.call",
                    base_attributes
                    \cup {<< "LLM_MODEL", "str" >>, << "model", "str" >>,
                          << "llm.request.timestamp", "str" >>,
                          << "llm.response.timestamp", e.end_timestamp >>,
                          << "request_timestamp", "str" >>,
                          << "response_timestamp", e.end_timestamp >>}) >>
          [] e.kind = "error" -> << >>

\* converter.py 136-150: the main span, then the child span if there is one
convert_event(e) ==
    << SpanDefinition(get_span_name(e), get_span_attributes(e)) >> \o create_child_span(e)

Converter_convert ==
    /\ impl = "converter"
    /\ cv_spans = << >>
    /\ cv_spans' = convert_event(cv_event)
    /\ UNCHANGED << impl, early_vars, handler_vars, instr_vars, registry_vars, cv_event >>

ConvertNext == Converter_convert

\* ------------------------------------------------- the instrumentor
\* tracer.py 126-132: the stages one instrument() call adds
InstrumentStages == << "lifecycle", "regular" >>

\* tracer.py 111-147: instrument() adds a lifecycle and a regular stage to the
\* provider and makes a new SessionTracer, whose construction (50-57) opens a
\* root span; the new tracer replaces the one held before.
instrument(st) ==
    [st EXCEPT !.stages = @ \o InstrumentStages,
               !.roots = Append(@, 0),
               !.tracer = Len(st.roots) + 1]

\* tracer.py 96-109: construction calls instrument() once
SessionInstrumentor_init == instrument([stages |-> << >>, roots |-> << >>, tracer |-> 0])

\* tracer.py 196-205: the session_started handler constructs the instrumentor
\* and calls instrument() on it again
Instrumentor_setup_session_tracer ==
    /\ impl = "instrumentor"
    /\ i_phase = "new"
    /\ LET st == instrument(SessionInstrumentor_init) IN
         /\ i_stages' = st.stages
         /\ i_roots' = st.roots
         /\ i_tracer' = st.tracer
    /\ i_phase' = "started"
    /\ UNCHANGED << impl, early_vars, handler_vars, convert_vars, registry_vars, i_is_shutdown >>

\* tracer.py 85-88: a SessionTracer that is no longer referenced is destroyed
\* at some time, and its __del__ ends its root span
Instrumentor_SessionTracer_del ==
    /\ impl = "instrumentor"
    /\ \E k \in 1..Len(i_roots) :
          /\ k # i_tracer
          /\ i_roots[k] = 0
          /\ i_roots' = [i_roots EXCEPT ![k] = @ + 1]
    /\ UNCHANGED << impl, early_vars, handler_vars, convert_vars, registry_vars, i_phase, i_stages, i_tracer, i_is_shutdown >>

\* tracer.py 208-216, 149-189: the session_ended handler shuts the instrumentor
\* down, which ends the root span of the tracer it holds
Instrumentor_cleanup_session_tracer ==
    /\ impl = "instrumentor"
    /\ i_phase = "started"
    /\ i_phase' = "ended"
    /\ IF i_is_shutdown
       THEN UNCHANGED << i_roots, i_is_shutdown >>
       ELSE /\ i_roots' = IF i_tracer # 0 THEN [i_roots EXCEPT ![i_tracer] = @ + 1]
                                           ELSE i_roots
            /\ i_is_shutdown' = TRUE
    /\ UNCHANGED << impl, early_vars, handler_vars, convert_vars, registry_vars, i_stages, i_tracer >>

InstrNext ==
    \/ Instrumentor_setup_session_tracer \/ Instrumentor_SessionTracer_del
    \/ Instrumentor_cleanup_session_tracer

\* ------------------------------------------------- the registries
\* instrumentation.py 58-69: a handler is stored under the session id, None
\* removes the entry
set_session_handler(handlers, s, handler) ==
    IF handler = None THEN handlers \ {s} ELSE handlers \cup {s}

\* session.py 103-104: _cleanup() does nothing
Session_cleanup(handlers) == handlers

\* session.py 85-101, 106-130, 157-166 with setup_session_telemetry
\* (instrumentation.py 71-100): a session whose JWT was obtained sets its log
\* pipeline up, which registers its handler
Registry_construct(s) ==
    /\ impl = "registry"
    /\ r_state[s] = "none"
    /\ \E outcome \in InitOutcomes :
          /\ r_state' = [r_state EXCEPT ![s] = IF Session_post_init(outcome) THEN "running"
                                                                             ELSE "failed"]
          /\ r_handlers' = IF outcome = "no_jwt" THEN r_handlers
                           ELSE set_session_handler(r_handlers, s, "handler")
    /\ UNCHANGED << impl, early_vars, handler_vars, convert_vars, instr_vars, r_tracer, r_tracers, r_log_down >>

\* session.py 306-318 with _on_session_start and setup_session_tracer
\* (telemetry/instrumentation.py 284-288, 165-193): the session's tracer is built
\* and stored under the session id
Registry_start(s) ==
    /\ impl = "registry"
    /\ r_state[s] # "none"
    /\ r_state' = [r_state EXCEPT ![s] = "running"]
    /\ r_tracers' = r_tracers \cup {s}
    /\ r_tracer' = [r_tracer EXCEPT ![s] = TRUE]
    /\ UNCHANGED << impl, early_vars, handler_vars, convert_vars, instr_vars, r_handlers, r_log_down >>

\* session.py 214-262 with _on_session_end and cleanup_session_tracer
\* (telemetry/instrumentation.py 306-324, 198-218): end() calls _cleanup() and
\* sends session_ended; the handler pops the tracer entry of a session that has
\* a tracer.
Registry_end(s) ==
    /\ impl = "registry"
    /\ r_state[s] = "running"
    /\ r_state' = [r_state EXCEPT ![s] = "ended"]
    /\ r_handlers' = Session_cleanup(r_handlers)
    /\ r_tracers' = IF r_tracer[s] THEN r_tracers \ {s} ELSE r_tracers
    /\ UNCHANGED << impl, early_vars, handler_vars, convert_vars, instr_vars, r_tracer, r_log_down >>

RegistryNext == \E s \in Sessions : Registry_construct(s) \/ Registry_start(s) \/ Registry_end(s)

\* ------------------------------------------------- receivers that call back
\* The calls a signal receiver can make on the session that sent the signal;
\* "return" is a receiver that makes none.
Callbacks == {"return", "start", "add_tags", "end"}

\* Nested calls of one thread are bounded
MaxDepth == 2

\* session.py 306-318 (_start_session), 176-197 and 320-339 (add_tags and the
\* _update_session it ends with), 214-262 (end): the statements of each
\* operation that touch a lock, is_running or a signal, in order
Statements(op) ==
    CASE op = "start" -> << "acquire", "send", "set_running", "send", "release" >>
      [] op = "add_tags" -> << "check_running", "acquire", "send", "post", "release" >>
      [] op = "end" -> << "acquire", "check_running", "send", "fields", "clear_running",
                          "send", "release" >>

\* session.py 308, 325 (with self._lock) and 220 (with self._end_session_lock)
LockOf(op) == IF op = "end" THEN "_end_session_lock" ELSE "_lock"

Top(t) == h_stack[t][Len(h_stack[t])]

\* the statement thread t is at
At(t) == IF h_stack[t] = << >> THEN "idle" ELSE Statements(Top(t).op)[Top(t).idx]

Advance(t) == [h_stack EXCEPT ![t][Len(h_stack[t])].idx = @ + 1]

Pop(t) == [h_stack EXCEPT ![t] = SubSeq(@, 1, Len(@) - 1)]

\* a thread calls start, add_tags or end from outside
Handlers_call(t) ==
    /\ impl = "handlers"
    /\ h_stack[t] = << >>
    /\ h_calls < MaxCalls
    /\ h_calls' = h_calls + 1
    /\ \E op \in Callbacks \ {"return"} :
          h_stack' = [h_stack EXCEPT ![t] = << [op |-> op, idx |-> 1] >>]
    /\ UNCHANGED << impl, early_vars, convert_vars, instr_vars, registry_vars, h_locks,
                    h_running >>

\* session.py 87-88: the locks are threading.Lock objects; the with statement
\* waits until the lock is free, whoever holds it
Handlers_acquire(t) ==
    /\ impl = "handlers"
    /\ At(t) = "acquire"
    /\ h_locks[LockOf(Top(t).op)] = None
    /\ h_locks' = [h_locks EXCEPT ![LockOf(Top(t).op)] = t]
    /\ h_stack' = Advance(t)
    /\ UNCHANGED << impl, early_vars, convert_vars, instr_vars, registry_vars, h_running,
                    h_calls >>

\* session.py 310, 316, 327, 229, 260: the signal is sent on the calling thread,
\* which runs the receiver before send() returns; a receiver that calls back
\* into the session makes a nested call
Handlers_send(t) ==
    /\ impl = "handlers"
    /\ At(t) = "send"
    /\ \E cb \in Callbacks :
          IF cb = "return"
          THEN h_stack' = Advance(t)
          ELSE /\ Len(h_stack[t]) < MaxDepth
               /\ h_stack' = [h_stack EXCEPT ![t] = Append(Advance(t)[t],
                                                            [op |-> cb, idx |-> 1])]
    /\ UNCHANGED << impl, early_vars, convert_vars, instr_vars, registry_vars, h_locks,
                    h_running, h_calls >>

\* session.py 322-323 (no lock is held yet) and 221-222 (the end lock is
\* released on the way out)
Handlers_check_running(t) ==
    /\ impl = "handlers"
    /\ At(t) = "check_running"
    /\ IF h_running
       THEN /\ h_stack' = Advance(t)
            /\ UNCHANGED h_locks
       ELSE /\ h_stack' = Pop(t)
            /\ h_locks' = IF Top(t).op = "end"
                          THEN [h_locks EXCEPT !["_end_session_lock"] = None]
                          ELSE h_locks
    /\ UNCHANGED << impl, early_vars, convert_vars, instr_vars, registry_vars, h_running,
                    h_calls >>

\* session.py 313, 259 (is_running) and 232-237, 331-339 (no lock, no signal)
Handlers_assign(t) ==
    /\ impl = "handlers"
    /\ At(t) \in {"set_running", "clear_running", "post", "fields"}
    /\ h_running' = CASE At(t) = "set_running" -> TRUE
                      [] At(t) = "clear_running" -> FALSE
                      [] OTHER -> h_running
    /\ h_stack' = Advance(t)
    /\ UNCHANGED << impl, early_vars, convert_vars, instr_vars, registry_vars, h_locks,
                    h_calls >>

\* the end of the with block
Handlers_release(t) ==
    /\ impl = "handlers"
    /\ At(t) = "release"
    /\ h_locks' = [h_locks EXCEPT ![LockOf(Top(t).op)] = None]
    /\ h_stack' = Pop(t)
    /\ UNCHANGED << impl, early_vars, convert_vars, instr_vars, registry_vars, h_running,
                    h_calls >>

HandlersNext ==
    \E t \in Threads :
        \/ Handlers_call(t) \/ Handlers_acquire(t) \/ Handlers_send(t)
        \/ Handlers_check_running(t) \/ Handlers_assign(t) \/ Handlers_release(t)

LifecycleNext == \E t \in Threads : SessionNext(t) \/ ManagerNext(t)

Next ==
    \/ LifecycleNext \/ EventNext \/ ExporterNext \/ PipelineNext \/ MultiNext
    \/ TraceNext \/ BatchNext \/ InflightNext \/ ConvertNext \/ InstrNext
    \/ RegistryNext \/ HandlersNext

Spec == Init /\ [][Next]_vars

\* The in-flight tracker on its own, with the scheduling of its threads: the
\* export thread is a running thread (processors.py 49-50), its sleep ends and
\* the lock it takes is held only for the length of a map operation
\* (processors.py 94-95, 113-114), and the caller of shutdown() runs on.
InflightOnly == Init /\ impl = "inflight"

InflightSpec ==
    /\ InflightOnly
    /\ [][InflightNext]_vars
    /\ WF_vars(Inflight_timer_check)
    /\ WF_vars(Inflight_timer_tick)
    /\ WF_vars(Inflight_shutdown)

\* ==================================================================== claims
EndCallWaiting(p) == p \in {"end_lock", "m_end_lock"}

\* C1: end() is idempotent.  A call of end() that finds the session already
\* ended, whatever end_state it is given, returns None at once: it sends
\* neither session_ending nor session_ended (nor any other signal), makes no
\* request, flushes and tears down nothing, and leaves the session record
\* (end_state, end_state_reason and end_timestamp included) as it was.
C1_EndIdempotent ==
    [][\A t \in Threads :
          (EndCallWaiting(pc[t]) /\ pc'[t] # pc[t] /\ ~is_running)
          => /\ pc'[t] = "idle"
             /\ UNCHANGED << session_vars, effect_vars, lock_vars >>
             /\ Len(ends') = Len(ends) + 1
             /\ LET e == ends'[Len(ends')] IN
                  /\ e.ret = None /\ ~e.raised /\ ~e.passed
                  /\ e.upd = 0 /\ e.fls = 0 /\ e.ending = 0 /\ e.ended = 0 /\ e.cln = 0
       ]_vars

\* C1 witness: an end() call has ended the session, and a later end() call
\* with a valid and one with an unrecognized end_state have found it ended.
C1_Witness ==
    /\ Len(ends) = 3
    /\ ends[1].passed /\ ~ends[1].running_post /\ ends[1].ended = 1
    /\ ~ends[2].passed /\ ~ends[3].passed
    /\ ends[2].es = "Success" /\ ends[3].es = "bogus"
    /\ ~is_running

\* C2: end() called twice on the same running session (started, no start in
\* between) makes exactly one update_session request and one flush in total;
\* the second call is a no-op that leaves the terminal state of the first.
C2_EndTwiceOneUpdateOneFlush ==
    \A i \in 1..(Len(ends) - 1) :
        LET a == ends[i]
            b == ends[i + 1] IN
        (a.passed /\ a.pre_started /\ b.epoch = a.epoch)
        => /\ a.upd + b.upd = 1
           /\ a.fls + b.fls = 1
           /\ ~b.passed
           /\ b.end_state_post = a.end_state_post
           /\ b.end_timestamp_post = a.end_timestamp_post

\* C3: two threads call end() concurrently on the same running session (the
\* second waits for the end lock while the first holds it): session_ending and
\* session_ended are each sent exactly once, the pipeline is cleaned up exactly
\* once, and the second caller finds the session ended and returns the no-op.
C3_ConcurrentEndOnce ==
    \A i \in 1..(Len(ends) - 1) :
        LET a == ends[i]
            b == ends[i + 1] IN
        (impl = "session" /\ a.passed /\ a.pre_started /\ a.overlap /\ a.t # b.t
           /\ b.epoch = a.epoch)
        => /\ a.ending + b.ending = 1
           /\ a.ended + b.ended = 1
           /\ a.cln + b.cln = 1
           /\ ~b.passed /\ b.ret = None

\* C4: an end() call that has passed the already-ended check leaves the session
\* terminal (not running) when it returns, whatever happened inside it.
C4_EndAlwaysTerminal ==
    \A i \in 1..Len(ends) : ends[i].passed => ~ends[i].running_post

\* C5: end_timestamp is set if and only if the session is terminal.
C5_EndTimestampIffTerminal == (end_timestamp # 0) <=> ~is_running

\* C6: while the session is terminal, no step of any call changes tags or
\* event_counts or sends a tag update to the server.
C6_FrozenWhenTerminal ==
    [][~is_running => /\ tags' = tags
                      /\ event_counts' = event_counts
                      /\ net'["update_tags"] = net["update_tags"]]_vars

NoRecordInProgress == \A t \in Threads : ~InRecord(pc[t])

\* C7: after any sequence of record() calls (one at a time) on a started,
\* running session, event_counts[c] is the number of events of category c
\* recorded so far.
C7_CountsEqualRecorded ==
    (is_running /\ PipelineUp /\ ~rec_overlap /\ NoRecordInProgress)
    => \A c \in Categories : event_counts[c] = recorded[c]

\* C8: no counter update is lost: once all record() calls have returned,
\* event_counts[c] is the number of increments made for category c by all
\* threads.
C8_NoLostUpdate ==
    NoRecordInProgress => \A c \in Categories : event_counts[c] = incs[c]

\* C9: end() on a running session with an unrecognized end_state does not
\* raise and ends the session in the Indeterminate end state.
C9_UnrecognizedEndsIndeterminate ==
    \A i \in 1..Len(ends) :
        (ends[i].passed /\ ends[i].es \notin EndStateValues)
        => /\ ~ends[i].raised
           /\ ~ends[i].running_post
           /\ ends[i].end_state_post = "Indeterminate"

\* C10: start succeeds only from INITIALIZING: in any other state it returns
\* failure and changes nothing; an ended session is never made running again.
C10_StartOnlyFromInitializing ==
    [][/\ (~is_running => ~is_running')
       /\ \A r \in start_log' : r.pre # "INITIALIZING" => r.ret = "False"
       /\ (SessionState # "INITIALIZING" => starts' = starts)]_vars

\* C11: a session whose initialization failed is in the FAILED terminal state
\* (not running, end state Fail) and no session_started is ever sent for it;
\* a pipeline that cannot be constructed at start raises nothing to the caller.
C11_InitFailureIsFailed ==
    /\ init_outcome # "ok" => /\ ~is_running
                              /\ end_state = "Fail"
                              /\ sent["session_started"] = 0
    /\ \A r \in start_log : ~r.raised

\* the handlers connected to event_recorded (event.py 31, instrumentation.py
\* 240, telemetry/instrumentation.py 361)
EventRecordedHandlers == {"on_event_recorded", "on_event_record", "_on_session_event_recorded"}

\* C12: an event's end_timestamp, once set, is never changed by a later step
\* of any handler (recording it, translating it into spans, completing it).
C12_EndTimestampWrittenOnce ==
    [][event.end_timestamp # 0 => event'.end_timestamp = event.end_timestamp]_vars

\* C13: end_timestamp is assigned at most once and never overwritten silently:
\* a handler of event_recorded that finds it already set assigns nothing (it
\* raises, or leaves the value alone); one that finds it unset assigns it
\* exactly once and does not raise, for every event class.
C13_SecondAssignmentFailsLoudly ==
    \A i \in 1..Len(ev_log) :
        ev_log[i].h \in EventRecordedHandlers
        => IF ev_log[i].pre # 0
           THEN ev_log[i].assigns = 0 /\ ev_log[i].post = ev_log[i].pre
           ELSE ~ev_log[i].raised /\ ev_log[i].assigns = 1

\* C14: once a shutdown() of the exporter has returned, no step of any export()
\* begins an HTTP request, and an export() called from then on returns SUCCESS.
C14_NoRequestAfterShutdown ==
    [][/\ x_down > 0 => x_net' = x_net
       /\ \A i \in 1..Len(x_log') :
             (x_log'[i].down > 0 /\ ~x_log'[i].checked) => x_log'[i].result = "SUCCESS"]_vars

\* C15: export() on an exporter that is not shut down, with a batch that holds
\* something the exporter sends, makes exactly one request and returns SUCCESS
\* if and only if the status is 200 (an exception is a FAILURE in normal
\* mode); with an empty batch it returns SUCCESS and makes no request.
C15_ExportStatusMapping ==
    \A i \in 1..Len(x_log) :
        LET e == x_log[i] IN
        e.checked =>
            IF e.batch = <<>>
            THEN e.result = "SUCCESS" /\ e.net = 0
            ELSE Selected(x_kind, e.batch) # <<>>
                 => /\ e.net = 1
                    /\ (e.result = "SUCCESS") <=> (e.resp = "200")
                    /\ (e.resp # "200" /\ ~x_testing) => e.result = "FAILURE"

\* C16: a non-200 status makes export() return FAILURE in normal mode; in
\* strict/test mode a non-200 status and a transport exception both raise.
C16_StrictModeRaises ==
    \A i \in 1..Len(x_log) :
        LET e == x_log[i] IN
        (e.checked /\ e.net = 1 /\ e.resp # "200")
        => e.result = (IF x_testing THEN "raise" ELSE "FAILURE")

\* C17: with strict mode off, no record(), add_tags(), set_tags() or end() call
\* raises to its caller because of a transport failure, whatever the HTTP
\* layer does.
C17_ProducersNeverRaiseTransport == tx_raised = {}

\* the stages with a shutdown() of their own
ShutdownKinds == {"SessionInstrumentor", "SessionSpanProcessor"}

\* C18: shutdown() is one-shot: a second or later call on a stage does not
\* raise and does nothing, in particular it does not flush or shut down the
\* wrapped stages again; a shut down exporter stays shut down.
C18_ShutdownOneShot ==
    /\ \A i \in 1..Len(p_calls) :
          (p_calls[i].kind \in ShutdownKinds /\ p_calls[i].nth > 1)
          => ~p_calls[i].raised /\ p_calls[i].steps = <<>>
    /\ x_down > 0 => x_shutdown

\* the session-end teardown routines
SessionEndKinds == {"SessionTracer", "SessionInstrumentor", "cleanup_session_tracer"}

ProcessorStages == {"span_processor", "processor", "lifecycle_1", "regular_1",
                    "lifecycle_2", "regular_2"}

Flushed(steps, j, stages) ==
    \E i \in 1..(j - 1) : steps[i].op = "flush" /\ steps[i].stage \in stages

\* C19: in every teardown of a session end, a processor is shut down only
\* after it was force-flushed, and the exporter is shut down only after the
\* processor feeding it was flushed.
C19_FlushBeforeShutdown ==
    \A c \in 1..Len(p_calls) :
        p_calls[c].kind \in SessionEndKinds
        => \A j \in 1..Len(p_calls[c].steps) :
              LET st == p_calls[c].steps[j] IN
              /\ (st.op = "shutdown" /\ st.stage \in ProcessorStages)
                 => Flushed(p_calls[c].steps, j, {st.stage})
              /\ (st.op = "shutdown" /\ st.stage = "exporter")
                 => Flushed(p_calls[c].steps, j, {"span_processor"})

\* C19 witness: a session end has flushed and shut down its span processor and
\* then shut down the exporter.
C19_Witness ==
    \E c \in 1..Len(p_calls) :
        /\ p_calls[c].kind = "SessionTracer"
        /\ p_calls[c].steps = << Step("span_processor", "flush"),
                                 Step("span_processor", "shutdown"),
                                 Step("exporter", "shutdown") >>

\* C20: with two active sessions, every span handed to a session's exporter
\* comes from an event recorded on that session.
C20_NoCrossSessionLeak ==
    \A s \in Sessions : m_delivered[s] \subseteq {s}

\* C21: every span created for a recorded event has the trace id of the
\* session's root span and a span id of its own, whichever thread recorded it
\* and whatever span is current on that thread.
C21_EventSpansShareRootTrace ==
    \A sp \in t_spans : sp.trace = t_root.trace /\ sp.id # t_root.id

\* C22: the derived max_export_batch_size is at least 1, at most 32 and at most
\* max_queue_size for every configured max_queue_size >= 1; it is 1 below 40,
\* a twentieth of the queue size up to 639 and 32 from 640 on; it is 25 for 512.
C22_BatchSizeDerivation ==
    b_built =>
        /\ b_batch >= 1
        /\ b_batch <= 32
        /\ b_batch <= b_queue
        /\ b_batch = (IF b_queue < 40 THEN 1
                      ELSE IF b_queue < 640 THEN b_queue \div 20 ELSE 32)
        /\ b_queue = 512 => b_batch = 25

C22_Witness == b_built /\ b_queue = 512

RECURSIVE FirstIndex(_, _)
\* the position of the first occurrence of x in the sequence s (0 if absent)
FirstIndex(s, x) ==
    IF s = <<>> THEN 0
    ELSE IF Head(s) = x THEN 1
    ELSE IF FirstIndex(Tail(s), x) = 0 THEN 0 ELSE 1 + FirstIndex(Tail(s), x)

Elements(s) == {s[i] : i \in 1..Len(s)}

NoDuplicates(s) == \A i, j \in 1..Len(s) : s[i] = s[j] => i = j

\* the argument of a tags call read as a list: a string is a one-element list
AsList(raw) == IF raw.isstr THEN << raw.s >> ELSE raw.l

\* `after` is `before` with the tags of `new` that it lacked, each once, in the
\* order of their first occurrence in `new`
OrderedSetUnion(before, new, after) ==
    /\ Len(before) <= Len(after)
    /\ SubSeq(after, 1, Len(before)) = before
    /\ Elements(after) = Elements(before) \cup Elements(new)
    /\ NoDuplicates(before) => NoDuplicates(after)
    /\ \A i, j \in (Len(before) + 1)..Len(after) :
           i < j => FirstIndex(new, after[i]) < FirstIndex(new, after[j])

\* no end() call has been made on the session
NoEndBegun == ends = <<>> /\ \A u \in Threads : fr[u].op # "end"

C26_EndedSessionLeavesRegistry ==
    [][(/\ Len(ends') = Len(ends) + 1
        /\ ends'[Len(ends')].passed
        /\ ~is_running') => ~registered']_vars

\* C27: an operation on one session leaves every other session as it was: its
\* running state and event counts do not change and its pipeline is not torn
\* down.
C27_SessionsAreIsolated ==
    [][\A x \in Sessions :
          x # m_last' =>
             /\ m_running'[x] = m_running[x]
             /\ m_counts'[x] = m_counts[x]
             /\ (x \in m_down') = (x \in m_down)]_vars

\* the spans that have started and have not had their on_end
OpenSpans == {i \in f_started \ f_ended : f_kind[i].recording}

\* C28: the tracked in-flight set is exactly the set of spans that have started
\* and have not yet ended: every started span is tracked until it ends and
\* every ended span, sampled or not, is removed.
C28_InFlightIsStartedNotEnded == f_in_flight = OpenSpans

\* C29: a tick forwards every span in flight and removes none: an open span has
\* been forwarded once per tick made since it started and is still tracked.
C29_TickForwardsAndKeeps ==
    \A i \in OpenSpans : i \in f_in_flight /\ f_fwd[i] = f_ticks - f_since[i]

C29_Witness == \E i \in OpenSpans : f_fwd[i] >= 2 /\ f_since[i] > 0

\* C30: no tick calls the wrapped stage's on_end after the wrapped stage's
\* shutdown has begun.
C30_NoTickAfterWrappedShutdown == ~f_late

C30_Witness == f_wrapped_down /\ f_ticks > 0 /\ f_in_flight # {} /\ f_timer = "exited"

\* C31: at session end the root span is ended before any processor is
\* force-flushed: the steps are end root span, flush every processor, shut
\* every processor down.
C31_RootSpanEndsBeforeFlush ==
    \A c \in 1..Len(p_calls) :
        p_calls[c].kind \in SessionEndKinds
        => \A i, j \in 1..Len(p_calls[c].steps) :
              (/\ p_calls[c].steps[i] = Step("root_span", "end")
               /\ p_calls[c].steps[j].stage \in ProcessorStages)
              => i < j

\* C32: an error during teardown is not raised and does not stop the teardown:
\* every processor the teardown began to flush is shut down by it.
C32_TeardownErrorsDoNotStopTeardown ==
    \A c \in 1..Len(p_calls) :
        p_calls[c].kind \in SessionEndKinds
        => /\ ~p_calls[c].raised
           /\ \A j \in 1..Len(p_calls[c].steps) :
                 LET st == p_calls[c].steps[j] IN
                   (st.op = "flush" /\ st.stage \in ProcessorStages)
                   => \E k \in 1..Len(p_calls[c].steps) :
                         p_calls[c].steps[k] = Step(st.stage, "shutdown")

\* C33: while a thread is in the update request of add_tags()/set_tags(),
\* another thread's start on the same session is not blocked by it.
C33_TagsUpdateDoesNotBlockLifecycle ==
    \A t, u \in Threads :
        (t # u /\ pc[t] = "upd_post" /\ CanCall(u)) => ENABLED Session_start_enter(u)


\* C34: every attribute of every span definition the converter returns has a
\* value that is not None; an event field that is None yields no attribute.
C34_NoNullAttributes ==
    \A k \in 1..Len(cv_spans) : \A a \in cv_spans[k].attributes : a[2] # "None"


\* C35: a started session has exactly one pipeline: its processor stages are
\* attached once, one root span is opened for it, and once the session has
\* ended that root span has been ended exactly once and none is left open.
C35_OnePipelinePerSession ==
    i_phase # "new" =>
        /\ i_stages = InstrumentStages
        /\ Len(i_roots) = 1
        /\ i_phase = "ended" => \A k \in 1..Len(i_roots) : i_roots[k] = 1


\* C36: event_recorded is sent only between session_started and session_ended:
\* whenever the signal is sent, the session's tracer has been set up and not
\* yet torn down; a session that was constructed and never started sends none.
C36_EventRecordedOnlyWhileTraced ==
    [][(impl = "session" /\ sent'["event_recorded"] > sent["event_recorded"])
         => (tracer = "active" /\ sent["session_started"] > sent["session_ended"])]_vars


\* C37: the registries hold entries of live sessions only: a session that has
\* ended has no handler in the session-handler map, its log processor was
\* flushed and shut down, and it has no entry in the tracer map.
C37_RegistriesHoldLiveSessionsOnly ==
    \A s \in Sessions : r_state[s] = "ended" =>
        (s \notin r_handlers /\ s \in r_log_down /\ s \notin r_tracers)


\* C38: no deadlock on the session's locks: there is never a set of threads
\* each of which waits for a lock held by a thread of the set, also when a
\* signal receiver run under a lock calls back into the session.
C38_NoLockDeadlock ==
    ~ \E W \in SUBSET Threads \ {{}} :
         \A t \in W : At(t) = "acquire" /\ h_locks[LockOf(Top(t).op)] \in W


\* C39: the forward of a span's real completion is the last forward of that
\* span: no tick of the export thread forwards a span to the wrapped stage
\* once its real on_end has been forwarded.
C39_RealEndIsLastForward == f_after = {}

\* a span was forwarded by a tick, then its real completion was forwarded, and
\* a tick ran after that
C39_Witness == \E i \in SpanIds : f_real[i] >= 0 /\ f_fwd[i] >= 1 /\ f_ticks > f_real[i]

\* C40: shutdown() of the in-flight tracker terminates: once the stop event is
\* set the export thread makes at most one more tick, it exits, the join
\* returns and the wrapped stage is shut down.
C40_ShutdownTerminates ==
    /\ [](f_after_stop <= 1)
    /\ f_stop ~> (f_timer = "exited" /\ f_wrapped_down)

\* the stop event was set while the export thread slept: it made one more
\* tick, exited, and the wrapped stage was shut down
C40_Witness == f_after_stop = 1 /\ f_timer = "exited" /\ f_wrapped_down

====
